---- MODULE Spec2Model ----
(***************************************************************************)
(* Model of the braindots game orchestrator (class Game) and of the        *)
(* entities it drives: session state machine, collision event router,     *)
(* boundary check, conveyor contact set, deferred reload timer and the     *)
(* asynchronous level load.                                                *)
(*                                                                         *)
(* Units.  Body translations are whole metres, presentation positions are  *)
(* pixels (SCALE pixels per metre, Y inverted).  Elapsed time is counted   *)
(* in steps of 0.1 s, so FLIP_INTERVAL (0.2 s) is 2.                       *)
(***************************************************************************)
EXTENDS Integers, Sequences, FiniteSets, TLC

(* ------------------------------ bounds -------------------------------- *)
MaxAttempts == 2
MaxPending == 1
MaxLines == 1
MaxStrokeLen == 2
MaxStepEvents == 2
MaxTouching == 2
MaxBeltChanges == 1
MaxDt == 1
MaxQueue == 2
MaxRemovedEvents == 1
MaxBeltDt == 2
MaxBeltVel == 6
MaxBeltAcc == 2
MaxButtonDt == 2
MaxButtonUpdates == 8
MaxProbePoints == 3
MaxPixel == 64
MaxGestures == 2
MaxMoves == 2

(* ------------------------- program constants -------------------------- *)
SCALE == 60
GAME_WIDTH == 1280
GAME_HEIGHT == 720
BALL_RADIUS == 25
FLIP_INTERVAL == 2

READY == 0
PLAYING == 1
WON == 2
LOST == 3

Null == -1
NoTimer == <<>>

VARIABLES
  gameState,                     \* Game.gameState
  hasStarted,                    \* Game.hasStarted
  currentLevelIndex,             \* Game.currentLevelIndex
  autoRestartTimeout,            \* Game.autoRestartTimeout (NoTimer = null)
  balls,                         \* Game.balls, in array order
  fallingObjects,                \* Game.fallingObjects
  iceBlocks,                     \* Game.iceBlocks
  lasers,                        \* Game.lasers
  conveyors,                     \* Game.conveyors
  drawnLines,                    \* Game.drawnLines
  ballColliderHandles,           \* the seven Map<number, Entity> tables,
  iceBlockColliderHandles,       \* each a function collider handle -> body
  laserColliderHandles,
  conveyorHandles,
  drawnLineColliderHandles,
  fallingObjectColliderHandles,
  seesawColliderHandles,
  activeConveyorContacts,        \* Game.activeConveyorContacts, in array order
  world,                         \* RAPIER.World: live collider handle -> body
  beltTouch,                     \* World: collider pairs now touching a belt
  removed,                       \* World: colliders removed since the last step
  eventQueue,                    \* PhysicsWorld.eventQueue (autoDrain = false)
  timers,                        \* armed setTimeout handles
  pendingLoads,                  \* loadLevel calls awaiting their level data
  attempt,                       \* number of level loads completed
  scheduled,                     \* history: setTimeout calls in this attempt
  touching,                      \* history: belt contacts per routed events
  last,                          \* history: what the last handler did; of a
                                 \* tick, the routed events that name no belt
                                 \* (low handle first) and how many name one
  belt,                          \* a body riding a belt (conveyor force law)
  button,                        \* a Button driven on its own
  drawing,                       \* the DrawingManager during one gesture
  probe,                         \* a pure function applied to drawn inputs
  levelData,                     \* LevelManager: what the level file spawns
  issueOps                       \* the issue processor: data.json, its trigger
                                 \* and the outcome of its last run

vars == << gameState, hasStarted, currentLevelIndex, autoRestartTimeout,
           balls, fallingObjects, iceBlocks, lasers, conveyors, drawnLines,
           ballColliderHandles, iceBlockColliderHandles, laserColliderHandles,
           conveyorHandles, drawnLineColliderHandles,
           fallingObjectColliderHandles, seesawColliderHandles,
           activeConveyorContacts, world, beltTouch, removed, eventQueue,
           timers, pendingLoads, attempt, scheduled, touching, last, belt, button,
           drawing, probe, levelData, issueOps >>

(* ------------------------------ helpers ------------------------------- *)
Range(s) == { s[i] : i \in DOMAIN s }

EmptyMap == [h \in {} |-> Null]

\* Map.get: the entity stored under the handle, or undefined (Null)
Lookup(tbl, h) == IF h \in DOMAIN tbl THEN tbl[h] ELSE Null

\* PhysicsWorld.toPhysics; the levels of the model use multiples of SCALE
toPhysics(px, py) == << px \div SCALE, -(py \div SCALE) >>

\* PhysicsWorld.toPixels
toPixels(sx, sy) == << sx * SCALE, -sy * SCALE >>

(* ------------------- JavaScript numbers (IEEE-754 doubles) ------------- *)
\* A double is [sign, sig, exp]: sig is its MantBits-bit significand as three
\* limbs << high, middle, low >> of LimbBits bits each (the leading 1 is the
\* top bit of the 17-bit high limb), exp the binary exponent of the leading
\* bit; the significand of zero is << 0, 0, 0 >>.  Results are rounded to
\* nearest, ties to even.
MantBits == 53

LimbBits == 18

Base == 2 ^ LimbBits

TopBit == 2 ^ (MantBits - 2 * LimbBits - 1)

\* the number of bits of a whole number below 2^31
BitLen(v) == Cardinality({ k \in 0..30 : 2 ^ k <= v })

\* the double of a whole number of at most 17 bits
FromInt(n) ==
  LET a == IF n < 0 THEN -n ELSE n
  IN [ sign |-> IF n < 0 THEN -1 ELSE 1,
       sig |-> << a * 2 ^ (MantBits - 2 * LimbBits - BitLen(a)), 0, 0 >>,
       exp |-> IF n = 0 THEN 0 ELSE BitLen(a) - 1 ]

\* a significand times a whole number c < 2^7, exact, as four limbs
MulSmall(sig, c) ==
  LET l == sig[3] * c
      m == sig[2] * c + l \div Base
      h == sig[1] * c + m \div Base
  IN << h \div Base, h % Base, m % Base, l % Base >>

\* four limbs divided by a whole number d < 2^7: quotient and remainder
DivSmall(n, d) ==
  LET x2 == (n[1] % d) * Base + n[2]
      x3 == (x2 % d) * Base + n[3]
      x4 == (x3 % d) * Base + n[4]
  IN [ q |-> << n[1] \div d, x2 \div d, x3 \div d, x4 \div d >>, r |-> x4 % d ]

\* the number of bits of a four-limb number
BitLen4(n) ==
  IF n[1] > 0 THEN 3 * LimbBits + BitLen(n[1])
  ELSE IF n[2] > 0 THEN 2 * LimbBits + BitLen(n[2])
  ELSE IF n[3] > 0 THEN LimbBits + BitLen(n[3])
  ELSE BitLen(n[4])

\* the double with the MantBits-bit significand n (four limbs, the first
\* zero), plus one unit in the last place when `up`
Round(sign, n, exp, up) ==
  LET l == n[4] + (IF up THEN 1 ELSE 0)
      m == n[3] + l \div Base
      h == n[2] + m \div Base
  IN IF h = 2 * TopBit
     THEN [ sign |-> sign, sig |-> << TopBit, 0, 0 >>, exp |-> exp + 1 ]
     ELSE [ sign |-> sign, sig |-> << h, m % Base, l % Base >>, exp |-> exp ]

\* the double next to a non-zero double, away from zero
Succ(x) == Round(x.sign, << 0 >> \o x.sig, x.exp, TRUE)

\* x / d for a whole number 0 < d < 2^7: the dividend is shifted left until
\* the quotient has MantBits bits, the remainder decides the rounding
F64DivInt(x, d) ==
  IF x.sig = << 0, 0, 0 >> THEN x
  ELSE LET t0 == BitLen(d) - 1
           d0 == DivSmall(MulSmall(x.sig, 2 ^ t0), d)
           t == IF BitLen4(d0.q) = MantBits THEN t0 ELSE t0 + 1
           dv == IF t = t0 THEN d0 ELSE DivSmall(MulSmall(x.sig, 2 ^ t), d)
       IN Round(x.sign, dv.q, x.exp - t,
                2 * dv.r > d \/ (2 * dv.r = d /\ dv.q[4] % 2 = 1))

\* x * c for a whole number 0 < c < 2^7: the exact product is cut to
\* MantBits bits, the bits cut off decide the rounding
F64MulInt(x, c) ==
  IF x.sig = << 0, 0, 0 >> THEN x
  ELSE LET p == MulSmall(x.sig, c)
           s == BitLen4(p) - MantBits
           low == 2 ^ s
           up == 2 ^ (LimbBits - s)
           \* p shifted right by s < LimbBits bits
           kept == << p[1] \div low,
                      (p[1] % low) * up + p[2] \div low,
                      (p[2] % low) * up + p[3] \div low,
                      (p[3] % low) * up + p[4] \div low >>
           cut == p[4] % (2 ^ s)
           half == IF s = 0 THEN 1 ELSE 2 ^ (s - 1)
       IN Round(x.sign, kept, x.exp + s,
                s > 0 /\ (cut > half \/ (cut = half /\ kept[4] % 2 = 1)))

F64Neg(x) == [x EXCEPT !.sign = -@]

\* === on two doubles: -0 equals 0
F64Eq(a, b) == (a.sig = << 0, 0, 0 >> /\ b.sig = << 0, 0, 0 >>) \/ a = b

\* PhysicsWorld.toPixels that forgets to invert the vertical axis
toPixelsUpright(s) == << F64MulInt(s[1], SCALE), F64MulInt(s[2], SCALE) >>

\* PhysicsWorld.toPhysics on doubles
toPhysicsF64(p) == << F64DivInt(p[1], SCALE), F64DivInt(F64Neg(p[2]), SCALE) >>

\* PhysicsWorld.toPixels on doubles
toPixelsF64(s) == << F64MulInt(s[1], SCALE), F64MulInt(F64Neg(s[2]), SCALE) >>

(* --------------------- collider handles of the World ------------------- *)
\* A World hands out a fresh handle for every collider it creates.  The
\* handle of the k-th collider of a level attempt is attempt * Stride + k.
CollidersPerLine == 2 * MaxStrokeLen - 1
FirstLineSlot == 7
Stride == FirstLineSlot + MaxLines * CollidersPerLine
Handle(att, slot) == att * Stride + slot
Slot(h) == h % Stride

BlueSlot == 0
PinkSlot == 1
FallingSlot == 2
IceSlot == 3
LaserSlot == 4
ConveyorSlot == 5
Laser2Slot == 6

(* ------------------------------ level data ----------------------------- *)
\* LevelManager.loadLevel(index): the ball start points in pixels, and which
\* of a falling object, an ice block, a laser and a conveyor belt the level
\* file lists besides the two balls.
BlueStart == << 600, 360 >>
PinkStart == << 720, 360 >>
MeltTime == 3

\* Where a solver step can leave a dynamic ball, besides where it is: beyond
\* the left margin of the playfield.
OutPositions == { << -1, -6 >> }

(* -------------------------------- Ball --------------------------------- *)
\* new Ball(physicsWorld, x, y, type, startActive)
NewBall(type, h, x, y, startActive) ==
  [ type |-> type, handle |-> h,
    bodyType |-> IF startActive THEN "dynamic" ELSE "fixed",
    pos |-> toPhysics(x, y), gfx |-> << x, y >> ]

\* Ball.activate / FallingObject.activate on a body of the given type
ActivateToggle(bodyType) == IF bodyType # "dynamic" THEN "dynamic" ELSE "fixed"

ActivateNoop(bodyType) == bodyType

Activate(bodyType) == IF bodyType # "dynamic" THEN "dynamic" ELSE bodyType

\* Ball.update: copy the body pose into the presentation position
BallUpdate(b) == [b EXCEPT !.gfx = << b.pos[1] * SCALE, -b.pos[2] * SCALE >>]

(* ------------------------------ DrawnLine ------------------------------ *)
Points == { << 600, 300 >>, << 660, 300 >> }
\* a createPhysicsSegments that skips no segment
NeverTooShort(p1, p2) == FALSE

\* length < 0.001 in createPhysicsSegments: with dx, dy in whole pixels,
\* (dx^2 + dy^2) / SCALE^2 < 10^-6, i.e. dx^2 + dy^2 <= (SCALE^2 - 1) div 10^6
SegmentTooShort(p1, p2) ==
  LET dx == p2[1] - p1[1]
      dy == p2[2] - p1[2]
  IN dx * dx + dy * dy <= (SCALE * SCALE - 1) \div 1000000

\* DrawnLine.createPhysicsSegments: the shapes of the colliders, in order
RECURSIVE SegmentShapes(_, _)
SegmentShapes(points, i) ==
  IF i >= Len(points) THEN << >>
  ELSE (IF SegmentTooShort(points[i], points[i + 1]) THEN << >> ELSE << "segment" >>)
       \o SegmentShapes(points, i + 1)

createPhysicsSegments(points) ==
  SegmentShapes(points, 1) \o [i \in 1..Len(points) |-> "circle"]

\* new DrawnLine(physicsWorld, points): a dynamic body and its colliders
NewDrawnLine(points, firstHandle) ==
  LET shapes == createPhysicsSegments(points)
  IN [ body |-> firstHandle,
       colliders |-> [i \in 1..Len(shapes) |-> firstHandle + i - 1],
       shapes |-> shapes ]

(* ------------------------------- Laser --------------------------------- *)
\* new Laser(...)
NewLaser(h) == [ handle |-> h, flipTimer |-> 0, isFlipped |-> FALSE ]

\* Laser.update(deltaTime) that keeps the timer but never flips the sprite
LaserUpdateKeepPhase(l, dt) ==
  [l EXCEPT !.flipTimer = IF @ + dt >= FLIP_INTERVAL THEN @ + dt - FLIP_INTERVAL
                          ELSE @ + dt]

\* Laser.update(deltaTime)
LaserUpdate(l, dt) ==
  LET t == l.flipTimer + dt
  IN IF t >= FLIP_INTERVAL
     THEN [l EXCEPT !.flipTimer = t - FLIP_INTERVAL, !.isFlipped = ~l.isFlipped]
     ELSE [l EXCEPT !.flipTimer = t]

(* ------------------------------ IceBlock ------------------------------- *)
\* new IceBlock(...); meltProgress is kept multiplied by meltTime
NewIceBlock(h, meltTime) ==
  [ handle |-> h, meltTime |-> meltTime, isMelting |-> FALSE, meltProgress |-> 0 ]

\* IceBlock.startMelting
startMelting(ice) ==
  IF ~ice.isMelting THEN [ice EXCEPT !.isMelting = TRUE, !.meltProgress = 0] ELSE ice

\* IceBlock.update(deltaTime) that forgets to advance the progress
IceUpdateFrozen(ice, dt) == ice

\* IceBlock.update(deltaTime): the block after the call
IceUpdate(ice, dt) ==
  IF ~ice.isMelting THEN ice ELSE [ice EXCEPT !.meltProgress = @ + dt]

\* IceBlock.update(deltaTime) that never reports "fully melted"
IceNeverMelted(ice, dt) == FALSE

\* IceBlock.update(deltaTime): its return value, "fully melted"
IceMelted(ice, dt) == ice.isMelting /\ ice.meltProgress + dt >= ice.meltTime

(* ---------------------------- ConveyorBelt ----------------------------- *)
\* The gear angle is kept modulo one full turn, in units of gearSpeed * 0.1 s
GearTurn == 2

\* new ConveyorBelt(...)
NewConveyor(h, acceleration) ==
  [ handle |-> h, acceleration |-> acceleration, gearRotation |-> 0 ]

\* ConveyorBelt.update(deltaTime) that leaves the gears where they are
ConveyorUpdateStill(c, dt) == c

\* ConveyorBelt.update(deltaTime)
ConveyorUpdate(c, dt) ==
  LET direction == IF c.acceleration >= 0 THEN 1 ELSE -1
  IN [c EXCEPT !.gearRotation = (@ + direction * dt) % GearTurn]

(* ------------------------ Game: win and loss --------------------------- *)
\* The mutable part of the Game and of the World while one tick runs:
\* [gameState, balls, ballColliderHandles, iceBlocks, activeConveyorContacts,
\*  autoRestartTimeout, timers, scheduled, world, beltTouch, removed,
\*  touching, trace, log]; log lists what each destruction did, in order

\* setTimeout(() => this.restartLevel(), 2000): arm a timer, keep its handle
ScheduleReload(g) ==
  LET id == << attempt, g.scheduled + 1 >>
  IN [g EXCEPT !.autoRestartTimeout = id,
               !.timers = @ \cup {id},
               !.scheduled = @ + 1]

\* a handleWin that hands the position to the effects as it comes
NoClamp(v, lo, hi) == v

\* Math.max(lo, Math.min(v, hi))
Clamp(v, lo, hi) == IF v < lo THEN lo ELSE IF v > hi THEN hi ELSE v

\* Game.handleWin(x, y); effects lists the positions given to the
\* EffectManager
handleWin(g, x, y) ==
  ScheduleReload([g EXCEPT !.gameState = WON, !.trace = Append(@, WON),
                           !.effects = Append(@, << Clamp(x, 0, GAME_WIDTH),
                                                    Clamp(y, 0, GAME_HEIGHT) >>)])

\* the guard of the setTimeout in Game.handleLoss
AlwaysSchedule(timeout) == TRUE

NeverSchedule(timeout) == FALSE

NeedsReloadTimer(timeout) == timeout = NoTimer

\* Game.handleLoss, the tail: schedule the reload unless one is pending
scheduleAfterLoss(g) ==
  IF NeedsReloadTimer(g.autoRestartTimeout) THEN ScheduleReload(g) ELSE g

\* Map.delete that forgets the entry
MapKeep(tbl, h) == tbl

\* Map.delete
MapDelete(tbl, h) == [x \in DOMAIN tbl \ {h} |-> tbl[x]]

\* Entity.destroy(physicsWorld): world.removeRigidBody(body), which takes the
\* colliders of the body with it, then graphics.destroy()
destroy(g, body) ==
  [g EXCEPT
     !.world = [h \in { x \in DOMAIN @ : @[x] # body } |-> @[h]],
     !.beltTouch = { p \in @ : g.world[p[1]] # body /\ g.world[p[2]] # body },
     !.removed = @ \cup { h \in DOMAIN g.world : g.world[h] = body },
     !.log = @ \o << << "world", body >>, << "gfx", body >> >>]

\* Game.handleLoss: this.balls.splice(index, 1)
spliceBall(g, ball) ==
  [g EXCEPT !.balls = SelectSeq(@, LAMBDA b : b.handle # ball),
            !.log = Append(@, << "live", ball >>)]

\* Game.handleLoss: this.ballColliderHandles.delete(ball.getColliderHandle())
deleteBallHandle(g, ball) ==
  [g EXCEPT !.ballColliderHandles = MapDelete(@, ball),
            !.log = Append(@, << "table", ball >>)]

\* the filter of Game.handleLoss that keeps every contact
KeepContacts(contacts, ball) == contacts

\* Game.handleLoss: "Also remove from active conveyor contacts"
FilterContacts(contacts, ball) == SelectSeq(contacts, LAMBDA c : c.body # ball)

dropBallContacts(g, ball) ==
  [g EXCEPT !.activeConveyorContacts = FilterContacts(@, ball),
            !.touching = { p \in @ : p[1] # ball }]

\* Game.handleLoss(ball); the ball is named by its body
handleLoss(g, ball) ==
  IF ~(\E i \in DOMAIN g.balls : g.balls[i].handle = ball) THEN g
  ELSE scheduleAfterLoss(
         dropBallContacts(
           deleteBallHandle(
             spliceBall(
               \* gameState = LOST
               destroy([g EXCEPT !.gameState = LOST, !.trace = Append(@, LOST)],
                       ball),
               ball),
             ball),
           ball))

(* ---------------------- Game: collision router ------------------------- *)
\* An event of the queue: [h1, h2, started]

\* the ice block of the table entry h starts melting, whatever its state
MeltAtReset(ices, h) ==
  LET ice == Lookup(iceBlockColliderHandles, h)
  IN [i \in DOMAIN ices |->
        IF ice # Null /\ ices[i].handle = ice
        THEN [ices[i] EXCEPT !.isMelting = TRUE, !.meltProgress = 0] ELSE ices[i]]

\* the ice block of the table entry h starts melting, if it is not yet
MeltAt(ices, h) ==
  LET ice == Lookup(iceBlockColliderHandles, h)
  IN [i \in DOMAIN ices |->
        IF ice # Null /\ ices[i].handle = ice /\ ~ices[i].isMelting
        THEN startMelting(ices[i]) ELSE ices[i]]

\* the conveyor pairing of processCollisions: the (conv, body) of the event,
\* or Null.  The ball table is read after the laser branch may have changed it.
ConveyorContactOf(g, ev) ==
  LET conv1 == Lookup(conveyorHandles, ev.h1)
      conv2 == Lookup(conveyorHandles, ev.h2)
      convBall1 == Lookup(g.ballColliderHandles, ev.h1)
      convBall2 == Lookup(g.ballColliderHandles, ev.h2)
      convLine1 == Lookup(drawnLineColliderHandles, ev.h1)
      convLine2 == Lookup(drawnLineColliderHandles, ev.h2)
      convFall1 == Lookup(fallingObjectColliderHandles, ev.h1)
      convFall2 == Lookup(fallingObjectColliderHandles, ev.h2)
      convSeesaw1 == Lookup(seesawColliderHandles, ev.h1)
      convSeesaw2 == Lookup(seesawColliderHandles, ev.h2)
  IN IF conv1 # Null /\ convBall2 # Null THEN [conv |-> conv1, body |-> convBall2]
     ELSE IF conv2 # Null /\ convBall1 # Null THEN [conv |-> conv2, body |-> convBall1]
     ELSE IF conv1 # Null /\ convLine2 # Null THEN [conv |-> conv1, body |-> convLine2]
     ELSE IF conv2 # Null /\ convLine1 # Null THEN [conv |-> conv2, body |-> convLine1]
     ELSE IF conv1 # Null /\ convFall2 # Null THEN [conv |-> conv1, body |-> convFall2]
     ELSE IF conv2 # Null /\ convFall1 # Null THEN [conv |-> conv2, body |-> convFall1]
     ELSE IF conv1 # Null /\ convSeesaw2 # Null THEN [conv |-> conv1, body |-> convSeesaw2]
     ELSE IF conv2 # Null /\ convSeesaw1 # Null THEN [conv |-> conv2, body |-> convSeesaw1]
     ELSE [conv |-> Null, body |-> Null]

\* the contact-end branch: which entries of the contact set survive
DropPair(contacts, cc) ==
  SelectSeq(contacts, LAMBDA c : c.body # cc.body \/ c.conveyor # cc.conv)

\* a contact-start branch without the duplicate test
AddPairAlways(contacts, cc) ==
  Append(contacts, [body |-> cc.body, conveyor |-> cc.conv])

\* the contact-start branch, with its duplicate test
AddPair(contacts, cc) ==
  IF \E i \in DOMAIN contacts :
       contacts[i].body = cc.body /\ contacts[i].conveyor = cc.conv
  THEN contacts
  ELSE Append(contacts, [body |-> cc.body, conveyor |-> cc.conv])

\* "Win: Ball to Ball" that compares the two lookups instead of testing
\* them, so that two missing handles count as a pair of balls
routeWinOnEqual(g, ev, ball1, ball2) ==
  IF ball1 = ball2 THEN handleWin(g, 0, 0) ELSE g

\* body.translation() of a live ball
BodyPos(g, ball) ==
  g.balls[CHOOSE i \in DOMAIN g.balls : g.balls[i].handle = ball].pos

\* the callback, "Win: Ball to Ball"; ball1 and ball2 are the lookups made
\* at the top of the callback; wins lists the ball positions read.  Twice
\* the midpoint is kept, so that it stays whole: toPixels is linear and
\* SCALE is even
routeWin(g, ev, ball1, ball2) ==
  IF ev.started /\ ball1 # Null /\ ball2 # Null
  THEN LET pos1 == BodyPos(g, ball1)
           pos2 == BodyPos(g, ball2)
           pixelPos == toPixels(pos1[1] + pos2[1], pos1[2] + pos2[2])
       IN handleWin([g EXCEPT !.wins = Append(@, << pos1, pos2 >>)],
                    pixelPos[1] \div 2, pixelPos[2] \div 2)
  ELSE g

\* the callback, "Ice Block melting"
routeIce(g, ev) ==
  IF ev.started THEN [g EXCEPT !.iceBlocks = MeltAt(MeltAt(@, ev.h1), ev.h2)] ELSE g

\* "Laser collision" that only looks for the laser in the first handle
routeLaserOneWay(g, ev, ball1, ball2) ==
  IF ev.started /\ Lookup(laserColliderHandles, ev.h1) # Null /\ ball2 # Null
  THEN handleLoss(g, ball2) ELSE g

\* the callback, "Laser collision"
routeLaser(g, ev, ball1, ball2) ==
  LET laser1 == Lookup(laserColliderHandles, ev.h1)
      laser2 == Lookup(laserColliderHandles, ev.h2)
      ballHitByLaser == (laser1 # Null /\ ball2 # Null) \/ (laser2 # Null /\ ball1 # Null)
      hitBall == IF ball1 # Null THEN ball1 ELSE ball2
  IN IF ev.started /\ ballHitByLaser /\ hitBall # Null
     THEN handleLoss(g, hitBall) ELSE g

\* the callback, "Conveyor Belt": cc is the pairing found for the event
routeConveyor(g, ev, cc) ==
  LET other == IF Lookup(conveyorHandles, ev.h1) # Null THEN ev.h2 ELSE ev.h1
  IN IF cc.conv = Null THEN g
     ELSE IF ev.started
     THEN [g EXCEPT !.activeConveyorContacts = AddPair(@, cc),
                    !.touching = @ \cup { << other, cc.conv >> }]
     ELSE [g EXCEPT !.activeConveyorContacts = DropPair(@, cc),
                    !.touching = @ \ { << other, cc.conv >> }]

routeConveyorOf(g, ev) == routeConveyor(g, ev, ConveyorContactOf(g, ev))

routeAfterLookup(g, ev, ball1, ball2) ==
  routeConveyorOf(routeLaser(routeIce(routeWin(g, ev, ball1, ball2), ev),
                             ev, ball1, ball2),
                  ev)

\* the callback of drainCollisionEvents, for one event
routeEvent(g, ev) ==
  routeAfterLookup(g, ev, Lookup(g.ballColliderHandles, ev.h1),
                          Lookup(g.ballColliderHandles, ev.h2))

\* Game.processCollisions: drain the queue through the callback
RECURSIVE drainCollisionEvents(_, _)
drainCollisionEvents(g, evs) ==
  IF evs = << >> THEN g
  ELSE drainCollisionEvents(routeEvent(g, Head(evs)), Tail(evs))

processCollisions(g, evs) ==
  IF g.gameState # PLAYING THEN g ELSE drainCollisionEvents(g, evs)

(* ----------------------- Game: boundary check -------------------------- *)
\* the test of checkBoundaries on a presentation position
OutOfBounds(p) ==
  LET margin == BALL_RADIUS * 2
  IN p[1] < -margin \/ p[1] > GAME_WIDTH + margin \/ p[2] > GAME_HEIGHT + margin

\* Game.checkBoundaries: the first ball out of bounds is lost
checkBoundaries(g) ==
  LET out == { i \in DOMAIN g.balls : OutOfBounds(g.balls[i].gfx) }
  IN IF out = {} THEN g
     ELSE LET first == CHOOSE i \in out : \A j \in out : i <= j
          IN handleLoss(g, g.balls[first].handle)

(* ------------------------- World: solver step ------------------------- *)
Kind(h) ==
  LET s == Slot(h)
  IN IF s = BlueSlot THEN "blue"
     ELSE IF s = PinkSlot THEN "pink"
     ELSE IF s = FallingSlot THEN "falling"
     ELSE IF s = IceSlot THEN "ice"
     ELSE IF s = LaserSlot \/ s = Laser2Slot THEN "laser"
     ELSE IF s = ConveyorSlot THEN "conveyor"
     ELSE "line"

\* the colliders the layout of the level lets touch: the balls each other
\* and the laser beam, the blue ball the ice block and the belt, a falling
\* object and a drawn line the belt
TouchKinds ==
  { << "blue", "pink" >>, << "blue", "laser" >>, << "pink", "laser" >>,
    << "blue", "ice" >>, << "blue", "conveyor" >>, << "falling", "conveyor" >>,
    << "line", "conveyor" >> }

CanTouch(h1, h2) ==
  << Kind(h1), Kind(h2) >> \in TouchKinds \/ << Kind(h2), Kind(h1) >> \in TouchKinds

IsBeltPair(p) == Kind(p[1]) = "conveyor" \/ Kind(p[2]) = "conveyor"

\* the body of the collider is dynamic (drawn lines always are)
IsDynamic(h) ==
  \/ \E i \in DOMAIN balls : balls[i].handle = h /\ balls[i].bodyType = "dynamic"
  \/ \E i \in DOMAIN fallingObjects :
       fallingObjects[i].handle = h /\ fallingObjects[i].bodyType = "dynamic"
  \/ (h \in DOMAIN world /\ Kind(h) = "line")

\* collider pairs << a, b >>, a < b, the narrow phase can report: both live,
\* not both on bodies at rest
\* The pairs whose contact changes in one step, in the order reported; a
\* pair is reported at most once per step
StepPairSeqs ==
  LET TouchablePairs ==
        { p \in (DOMAIN world) \X (DOMAIN world) :
            /\ p[1] < p[2]
            /\ world[p[1]] # world[p[2]]
            /\ CanTouch(p[1], p[2])
            /\ (IsDynamic(p[1]) \/ IsDynamic(p[2])) }
  IN UNION { { s \in [1..n -> TouchablePairs] :
                 /\ \A i, j \in 1..n : i # j => s[i] # s[j]
                 /\ Cardinality({ i \in 1..n : IsBeltPair(s[i]) }) <= MaxBeltChanges } :
             n \in 0..MaxStepEvents }

\* collider pairs the narrow phase can report as ended because a collider
\* of the pair was removed since the last step: the two were created for the
\* same level attempt, and the other one is live or was removed as well
RemovedPairs ==
  { p \in (removed \cup DOMAIN world) \X (removed \cup DOMAIN world) :
      /\ p[1] < p[2]
      /\ p[1] \in removed \/ p[2] \in removed
      /\ p[1] \div Stride = p[2] \div Stride
      /\ CanTouch(p[1], p[2]) }

\* the contact-end event of a removed pair
RemovedEvents(ps, swap) ==
  [i \in DOMAIN ps |->
     [ h1 |-> IF swap THEN ps[i][2] ELSE ps[i][1],
       h2 |-> IF swap THEN ps[i][1] ELSE ps[i][2],
       started |-> FALSE ]]

\* the event of a pair: a belt pair starts or stops touching; of the other
\* pairs only the contact-start is reported (their contact-end routes to nothing)
StepEvents(ps, swap) ==
  [i \in DOMAIN ps |->
     [ h1 |-> IF swap THEN ps[i][2] ELSE ps[i][1],
       h2 |-> IF swap THEN ps[i][1] ELSE ps[i][2],
       started |-> IF IsBeltPair(ps[i]) THEN ps[i] \notin beltTouch ELSE TRUE ]]

StepBeltTouch(ps) ==
  LET changed == { p \in Range(ps) : IsBeltPair(p) }
  IN (beltTouch \ changed) \cup (changed \ beltTouch)

\* where a step can leave the bodies of the balls
StepPositions ==
  { np \in [DOMAIN balls -> OutPositions \cup { toPhysics(BlueStart[1], BlueStart[2]),
                                                toPhysics(PinkStart[1], PinkStart[2]) }] :
      \A i \in DOMAIN balls :
        np[i] \in (IF balls[i].bodyType = "dynamic"
                   THEN {balls[i].pos} \cup OutPositions ELSE {balls[i].pos}) }

(* ------------------------------ Game.update ---------------------------- *)
\* "Stop updates if game is over"
GameOverWon(s) == s = WON

GameOverLost(s) == s = LOST

\* an update that stops whenever the session is not Playing
GameOverOrReady(s) == s # PLAYING

GameOver(s) == s = WON \/ s = LOST

NoLast == [ op |-> "init", trace |-> << READY >>, stepped |-> FALSE,
            ballContact |-> FALSE, crossed |-> FALSE, stale |-> FALSE,
            dt |-> 0, events |-> << >>, beltEvents |-> 0, melted |-> {},
            log |-> << >>, wins |-> << >>, effects |-> << >> ]

\* Game.update, the ice loop for a block that reports "fully melted":
\* iceBlockColliderHandles.delete, iceBlock.destroy, iceBlocks.splice(i, 1)
deleteIceHandle(g, ice) ==
  [g EXCEPT !.iceBlockColliderHandles = MapDelete(@, ice),
            !.log = Append(@, << "table", ice >>)]

spliceIce(g, i) ==
  [g EXCEPT !.iceBlocks = SelectSeq(@, LAMBDA ice : ice.handle # g.iceBlocks[i].handle),
            !.melted = @ \cup { g.iceBlocks[i].handle },
            !.log = Append(@, << "live", g.iceBlocks[i].handle >>)]

removeMelted(g, i) ==
  spliceIce(destroy(deleteIceHandle(g, g.iceBlocks[i].handle), g.iceBlocks[i].handle), i)

\* Game.update, "Update ice blocks (handle melting and removal)": the loop
\* runs from the last block down to the first
RECURSIVE updateIceBlocks(_, _, _)
updateIceBlocks(g, i, dt) ==
  IF i = 0 THEN g
  ELSE updateIceBlocks(
         IF IceMelted(g.iceBlocks[i], dt) THEN removeMelted(g, i)
         ELSE [g EXCEPT !.iceBlocks[i] = IceUpdate(@, dt)],
         i - 1, dt)

\* Game.update after the entity updates: g is the game after
\* processCollisions, checkBoundaries and the ice loop (or after the ice loop
\* only, when not Playing); the balls sync their presentation, the belts turn
updateAfterStep(dt, g, queued, playing, ballContact, crossed) ==
  /\ gameState' = g.gameState
  /\ balls' = [i \in DOMAIN g.balls |-> BallUpdate(g.balls[i])]
  /\ ballColliderHandles' = g.ballColliderHandles
  /\ activeConveyorContacts' = g.activeConveyorContacts
  /\ autoRestartTimeout' = g.autoRestartTimeout
  /\ timers' = g.timers
  /\ scheduled' = g.scheduled
  /\ beltTouch' = g.beltTouch
  /\ removed' = g.removed
  /\ touching' = g.touching
  /\ eventQueue' = IF playing THEN << >> ELSE queued
  /\ iceBlocks' = g.iceBlocks
  /\ iceBlockColliderHandles' = g.iceBlockColliderHandles
  /\ world' = g.world
  /\ conveyors' = [i \in DOMAIN conveyors |-> ConveyorUpdate(conveyors[i], dt)]
  /\ last' = [ op |-> "tick", trace |-> g.trace, stepped |-> TRUE,
               ballContact |-> ballContact, crossed |-> crossed,
               stale |-> FALSE, dt |-> dt,
               events |-> IF playing
                          THEN LET routed ==
                                     SelectSeq(queued, LAMBDA ev :
                                       { ev.h1, ev.h2 } \cap DOMAIN conveyorHandles = {})
                               IN [i \in DOMAIN routed |->
                                     IF routed[i].h1 < routed[i].h2 THEN routed[i]
                                     ELSE [routed[i] EXCEPT !.h1 = routed[i].h2,
                                                            !.h2 = routed[i].h1]]
                          ELSE << >>,
               beltEvents |-> IF playing
                              THEN Cardinality({ i \in DOMAIN queued :
                                     { queued[i].h1, queued[i].h2 }
                                       \cap DOMAIN conveyorHandles # {} })
                              ELSE 0,
               melted |-> g.melted, log |-> g.log,
               wins |-> g.wins, effects |-> g.effects ]

\* Game.update from the ice loop on
updateFromIce(dt, g, queued, playing, ballContact, crossed) ==
  updateAfterStep(dt, updateIceBlocks(g, Len(g.iceBlocks), dt), queued, playing,
                  ballContact, crossed)

\* Game.update from physicsWorld.step on: the step has left the balls at
\* `stepped` and the queue at `queued`
updateFromStep(dt, stepped, queued, belts, playing, ballContact, crossed) ==
  updateFromIce(dt,
    IF playing
    THEN checkBoundaries(processCollisions(
           [ gameState |-> gameState,
             balls |-> stepped,
             ballColliderHandles |-> ballColliderHandles,
             iceBlocks |-> iceBlocks,
             iceBlockColliderHandles |-> iceBlockColliderHandles,
             melted |-> {},
             activeConveyorContacts |-> activeConveyorContacts,
             autoRestartTimeout |-> autoRestartTimeout,
             timers |-> timers,
             scheduled |-> scheduled,
             world |-> world,
             beltTouch |-> belts,
             removed |-> {},
             log |-> << >>,
             wins |-> << >>,
             effects |-> << >>,
             touching |-> touching,
             trace |-> << gameState >> ], queued))
    ELSE [ gameState |-> gameState,
           balls |-> stepped,
           ballColliderHandles |-> ballColliderHandles,
           iceBlocks |-> iceBlocks,
           iceBlockColliderHandles |-> iceBlockColliderHandles,
           melted |-> {},
           activeConveyorContacts |-> activeConveyorContacts,
           autoRestartTimeout |-> autoRestartTimeout,
           timers |-> timers,
           scheduled |-> scheduled,
           world |-> world,
           beltTouch |-> belts,
           removed |-> {},
           log |-> << >>,
           wins |-> << >>,
           effects |-> << >>,
           touching |-> touching,
           trace |-> << gameState >> ],
    queued, playing, ballContact, crossed)

\* Game.update(ticker) with ticker.deltaMS / 1000 = dt
Tick ==
  \E dt \in 1..MaxDt :
    /\ lasers' = [i \in DOMAIN lasers |-> LaserUpdate(lasers[i], dt)]
    /\ IF GameOver(gameState)
       THEN /\ last' = [NoLast EXCEPT !.op = "tick", !.trace = << gameState >>,
                                         !.dt = dt]
            /\ UNCHANGED << gameState, hasStarted, currentLevelIndex,
                            autoRestartTimeout, balls, fallingObjects, iceBlocks,
                            conveyors, drawnLines, ballColliderHandles,
                            iceBlockColliderHandles, laserColliderHandles,
                            conveyorHandles, drawnLineColliderHandles,
                            fallingObjectColliderHandles, seesawColliderHandles,
                            activeConveyorContacts, world, beltTouch, removed, eventQueue,
                            timers, pendingLoads, attempt, scheduled, touching,
                            belt, button, drawing, probe, levelData, issueOps >>
       ELSE
         \* seesaw and conveyor forces act on velocities, which the solver
         \* owns; physicsWorld.step moves the bodies and queues the events
         \E ps \in StepPairSeqs,
            rs \in UNION { [1..n -> RemovedPairs] : n \in 0..MaxRemovedEvents },
            swap \in BOOLEAN, np \in StepPositions :
           /\ Cardinality(StepBeltTouch(ps)) <= MaxTouching
           /\ Len(eventQueue) + Len(rs) + Len(ps) <= MaxQueue
           /\ swap => Len(rs) + Len(ps) > 0
           /\ updateFromStep(dt, [i \in DOMAIN balls |-> [balls[i] EXCEPT !.pos = np[i]]],
                             eventQueue \o RemovedEvents(rs, swap) \o StepEvents(ps, swap),
                             StepBeltTouch(ps), gameState = PLAYING,
                             gameState = PLAYING /\ \E i \in DOMAIN ps :
                               { Kind(ps[i][1]), Kind(ps[i][2]) } = { "blue", "pink" },
                             gameState = PLAYING /\ \E i \in DOMAIN balls :
                               OutOfBounds(toPixels(np[i][1], np[i][2])))
           /\ UNCHANGED << hasStarted, currentLevelIndex, fallingObjects,
                           drawnLines, laserColliderHandles, conveyorHandles,
                           drawnLineColliderHandles,
                           fallingObjectColliderHandles,
                           seesawColliderHandles, pendingLoads, attempt,
                           belt, button, drawing, probe, levelData, issueOps >>

(* --------------------------- Game.startGame ---------------------------- *)
ActivateAll(entities) ==
  [i \in DOMAIN entities |-> [entities[i] EXCEPT !.bodyType = Activate(@)]]

\* Game.startGame, also the drawing-end callback of the DrawingManager
StartGame ==
  /\ gameState' = IF ~hasStarted THEN PLAYING ELSE gameState
  /\ balls' = IF ~hasStarted THEN ActivateAll(balls) ELSE balls
  /\ fallingObjects' = IF ~hasStarted THEN ActivateAll(fallingObjects) ELSE fallingObjects
  /\ hasStarted' = TRUE
  /\ last' = [NoLast EXCEPT !.op = "start",
                            !.trace = IF ~hasStarted THEN << gameState, PLAYING >>
                                      ELSE << gameState >>]
  /\ UNCHANGED << currentLevelIndex, autoRestartTimeout, iceBlocks, lasers,
                  conveyors, drawnLines, ballColliderHandles,
                  iceBlockColliderHandles, laserColliderHandles,
                  conveyorHandles, drawnLineColliderHandles,
                  fallingObjectColliderHandles, seesawColliderHandles,
                  activeConveyorContacts, world, beltTouch, removed, eventQueue, timers,
                  pendingLoads, attempt, scheduled, touching, belt, button, drawing, probe, levelData, issueOps >>

(* --------------------------- Game.onLineDrawn -------------------------- *)
\* Game.onLineDrawn(points): build the line, register its colliders, start
OnLineDrawn ==
  \* the strokes the DrawingManager delivers: it keeps a point only when it
  \* is LINE_MIN_DISTANCE away from the point before it
  \E points \in { s \in UNION { [1..n -> Points] : n \in 1..MaxStrokeLen } :
                     \A i \in 1..(Len(s) - 1) : s[i] # s[i + 1] } :
    /\ Len(drawnLines) < MaxLines
    /\ LET first == Handle(attempt, FirstLineSlot + Len(drawnLines) * CollidersPerLine)
           line == NewDrawnLine(points, first)
           hs == Range(line.colliders)
       IN /\ drawnLines' = Append(drawnLines, line)
          /\ world' = [h \in DOMAIN world \cup hs |->
                         IF h \in hs THEN line.body ELSE world[h]]
          /\ drawnLineColliderHandles' =
               [h \in DOMAIN drawnLineColliderHandles \cup hs |->
                  IF h \in hs THEN line.body ELSE drawnLineColliderHandles[h]]
    /\ gameState' = IF ~hasStarted THEN PLAYING ELSE gameState
    /\ balls' = IF ~hasStarted THEN ActivateAll(balls) ELSE balls
    /\ fallingObjects' = IF ~hasStarted THEN ActivateAll(fallingObjects) ELSE fallingObjects
    /\ hasStarted' = TRUE
    /\ last' = [NoLast EXCEPT !.op = "line",
                              !.trace = IF ~hasStarted THEN << gameState, PLAYING >>
                                        ELSE << gameState >>]
    /\ UNCHANGED << currentLevelIndex, autoRestartTimeout, iceBlocks, lasers,
                    conveyors, ballColliderHandles, iceBlockColliderHandles,
                    laserColliderHandles, conveyorHandles,
                    fallingObjectColliderHandles, seesawColliderHandles,
                    activeConveyorContacts, beltTouch, removed, eventQueue, timers,
                    pendingLoads, attempt, scheduled, touching, belt, button, drawing, probe, levelData, issueOps >>

(* ------------------- Game.restartLevel / Game.loadLevel ---------------- *)
\* the part of loadLevel before its await: the request for the level data
BeginLoad(index) == Append(pendingLoads, [index |-> index, startedIn |-> attempt])

\* the restart button: restartLevel -> loadLevel(currentLevelIndex)
RestartClick ==
  /\ Len(pendingLoads) < MaxPending
  /\ attempt < MaxAttempts
  /\ pendingLoads' = BeginLoad(currentLevelIndex)
  /\ last' = [NoLast EXCEPT !.op = "restart", !.trace = << gameState >>]
  /\ UNCHANGED << gameState, hasStarted, currentLevelIndex, autoRestartTimeout,
                  balls, fallingObjects, iceBlocks, lasers, conveyors,
                  drawnLines, ballColliderHandles, iceBlockColliderHandles,
                  laserColliderHandles, conveyorHandles,
                  drawnLineColliderHandles, fallingObjectColliderHandles,
                  seesawColliderHandles, activeConveyorContacts, world,
                  beltTouch, removed, eventQueue, timers, attempt, scheduled, touching,
                  belt, button, drawing, probe, levelData, issueOps >>

\* the callback of the setTimeout of handleWin / handleLoss fires
TimerFire ==
  \E id \in timers :
    /\ timers' = timers \ {id}
    /\ pendingLoads' = BeginLoad(currentLevelIndex)
    /\ last' = [NoLast EXCEPT !.op = "timer", !.trace = << gameState >>]
    /\ UNCHANGED << gameState, hasStarted, currentLevelIndex,
                    autoRestartTimeout, balls, fallingObjects, iceBlocks,
                    lasers, conveyors, drawnLines, ballColliderHandles,
                    iceBlockColliderHandles, laserColliderHandles,
                    conveyorHandles, drawnLineColliderHandles,
                    fallingObjectColliderHandles, seesawColliderHandles,
                    activeConveyorContacts, world, beltTouch, removed, eventQueue,
                    attempt, scheduled, touching, belt, button, drawing, probe, levelData, issueOps >>

\* a clearLevel that leaves the pending timer armed
KeepTimers(armed, handle) == armed

\* a clearLevel that forgets the handle before it clears the timer
ClearNullTimer(armed, handle) == armed \ {NoTimer}

\* clearTimeout of Game.clearLevel
ClearTimers(armed, handle) == armed \ {handle}

\* new FallingObject(physicsWorld, obj, startActive)
NewFallingObject(h, startActive) ==
  [ handle |-> h, bodyType |-> IF startActive THEN "dynamic" ELSE "fixed" ]

\* the entities of one kind a level file spawns
Spawn(data, slot, entity) == IF slot \in data THEN << entity >> ELSE << >>

\* a table or World with one single-collider entity, or none
Table(data, att, slot) ==
  IF slot \in data THEN [h \in { Handle(att, slot) } |-> h] ELSE EmptyMap

\* what clearLevel and the spawning part of loadLevel leave of the Game and
\* of the World
LevelState(att, data) ==
  [ gameState |-> READY,
    hasStarted |-> FALSE,
    autoRestartTimeout |-> NoTimer,
    balls |-> << NewBall("blue", Handle(att, BlueSlot), BlueStart[1], BlueStart[2], FALSE),
                 NewBall("pink", Handle(att, PinkSlot), PinkStart[1], PinkStart[2], FALSE) >>,
    fallingObjects |->
      Spawn(data, FallingSlot, NewFallingObject(Handle(att, FallingSlot), FALSE)),
    iceBlocks |-> Spawn(data, IceSlot, NewIceBlock(Handle(att, IceSlot), MeltTime)),
    lasers |-> Spawn(data, LaserSlot, NewLaser(Handle(att, LaserSlot)))
               \o Spawn(data, Laser2Slot, NewLaser(Handle(att, Laser2Slot))),
    conveyors |-> Spawn(data, ConveyorSlot, NewConveyor(Handle(att, ConveyorSlot), 1)),
    drawnLines |-> << >>,
    ballColliderHandles |->
      [h \in { Handle(att, BlueSlot), Handle(att, PinkSlot) } |-> h],
    iceBlockColliderHandles |-> Table(data, att, IceSlot),
    laserColliderHandles |->
      [h \in { Handle(att, slot) : slot \in data \cap { LaserSlot, Laser2Slot } } |-> h],
    conveyorHandles |-> Table(data, att, ConveyorSlot),
    drawnLineColliderHandles |-> EmptyMap,
    fallingObjectColliderHandles |-> Table(data, att, FallingSlot),
    seesawColliderHandles |-> EmptyMap,
    activeConveyorContacts |-> << >>,
    world |-> [h \in { Handle(att, slot) : slot \in data \cup { BlueSlot, PinkSlot } } |-> h] ]

\* Game.clearLevel and the spawning part of Game.loadLevel
LevelLoaded(lv) ==
  /\ gameState' = lv.gameState
  /\ hasStarted' = lv.hasStarted
  /\ autoRestartTimeout' = lv.autoRestartTimeout
  /\ balls' = lv.balls
  /\ fallingObjects' = lv.fallingObjects
  /\ iceBlocks' = lv.iceBlocks
  /\ lasers' = lv.lasers
  /\ conveyors' = lv.conveyors
  /\ drawnLines' = lv.drawnLines
  /\ ballColliderHandles' = lv.ballColliderHandles
  /\ iceBlockColliderHandles' = lv.iceBlockColliderHandles
  /\ laserColliderHandles' = lv.laserColliderHandles
  /\ conveyorHandles' = lv.conveyorHandles
  /\ drawnLineColliderHandles' = lv.drawnLineColliderHandles
  /\ fallingObjectColliderHandles' = lv.fallingObjectColliderHandles
  /\ seesawColliderHandles' = lv.seesawColliderHandles
  /\ activeConveyorContacts' = lv.activeConveyorContacts
  /\ world' = lv.world
  /\ beltTouch' = {}
  /\ removed' = removed \cup DOMAIN world
  /\ touching' = {}
  /\ scheduled' = 0

\* Game.clearLevel, for the entities of one kind: each is destroyed, then the
\* array is emptied, then the lookup table is cleared
RECURSIVE destroyLog(_)
destroyLog(bodies) ==
  IF bodies = << >> THEN << >>
  ELSE << << "world", Head(bodies) >>, << "gfx", Head(bodies) >> >>
       \o destroyLog(Tail(bodies))

clearKindLog(bodies) ==
  destroyLog(bodies) \o [i \in DOMAIN bodies |-> << "live", bodies[i] >>]
                     \o [i \in DOMAIN bodies |-> << "table", bodies[i] >>]

\* Game.clearLevel: what it destroys and clears, in order
clearLevelLog ==
  clearKindLog([i \in DOMAIN balls |-> balls[i].handle])
  \o clearKindLog([i \in DOMAIN fallingObjects |-> fallingObjects[i].handle])
  \o clearKindLog([i \in DOMAIN iceBlocks |-> iceBlocks[i].handle])
  \o clearKindLog([i \in DOMAIN lasers |-> lasers[i].handle])
  \o clearKindLog([i \in DOMAIN conveyors |-> conveyors[i].handle])
  \o clearKindLog([i \in DOMAIN drawnLines |-> drawnLines[i].body])

\* the rest of loadLevel, once levelManager.loadLevel(index) has resolved:
\* with no level data nothing happens, else clearLevel and the spawning
\* a loadLevel that goes on without level data
AnyLevelData(ok) == TRUE

\* the test of loadLevel on what the LevelManager returned: ok tells whether
\* it returned level data
HasLevelData(ok) == ok

LoadDone(ok) ==
  \E i \in DOMAIN pendingLoads :
    LET load == pendingLoads[i]
    IN /\ pendingLoads' = [j \in 1..(Len(pendingLoads) - 1) |->
                              IF j < i THEN pendingLoads[j] ELSE pendingLoads[j + 1]]
       /\ IF HasLevelData(ok)
          THEN /\ attempt < MaxAttempts
               /\ attempt' = attempt + 1
               /\ currentLevelIndex' = load.index
               /\ timers' = ClearTimers(timers, autoRestartTimeout)
               /\ LevelLoaded(LevelState(attempt + 1, levelData))
               /\ last' = [NoLast EXCEPT !.op = IF ok THEN "load" ELSE "loadFailed",
                                         !.trace = << gameState, READY >>,
                                         !.stale = load.startedIn < attempt,
                                         !.log = clearLevelLog]
               /\ UNCHANGED << eventQueue, belt, button, drawing, probe, levelData, issueOps >>
          ELSE /\ last' = [NoLast EXCEPT !.op = "loadFailed", !.trace = << gameState >>]
               /\ UNCHANGED << gameState, hasStarted, currentLevelIndex,
                               autoRestartTimeout, balls, fallingObjects,
                               iceBlocks, lasers, conveyors, drawnLines,
                               ballColliderHandles, iceBlockColliderHandles,
                               laserColliderHandles, conveyorHandles,
                               drawnLineColliderHandles,
                               fallingObjectColliderHandles,
                               seesawColliderHandles, activeConveyorContacts,
                               world, beltTouch, removed, eventQueue, timers, attempt,
                               scheduled, touching, belt, button, drawing, probe, levelData, issueOps >>

\* the level data arrives, or the fetch yields nothing
LoadComplete == \E ok \in BOOLEAN : LoadDone(ok)

\* the level data arrives
LoadSucceeds == LoadDone(TRUE)

(* ------------------- Ball.activate / FallingObject.activate ------------ *)
\* the public method called on a live entity, outside startGame
ActivateCall ==
  \/ \E i \in DOMAIN balls :
       /\ balls' = [balls EXCEPT ![i].bodyType = Activate(@)]
       /\ last' = [NoLast EXCEPT
                     !.op = IF balls[i].bodyType = "dynamic" THEN "reactivate"
                            ELSE "activate",
                     !.trace = << gameState >>]
       /\ UNCHANGED fallingObjects
  \/ \E i \in DOMAIN fallingObjects :
       /\ fallingObjects' = [fallingObjects EXCEPT ![i].bodyType = Activate(@)]
       /\ last' = [NoLast EXCEPT
                     !.op = IF fallingObjects[i].bodyType = "dynamic" THEN "reactivate"
                            ELSE "activate",
                     !.trace = << gameState >>]
       /\ UNCHANGED balls

ActivateApi ==
  /\ ActivateCall
  /\ UNCHANGED << gameState, hasStarted, currentLevelIndex, autoRestartTimeout,
                  iceBlocks, lasers, conveyors, drawnLines, ballColliderHandles,
                  iceBlockColliderHandles, laserColliderHandles,
                  conveyorHandles, drawnLineColliderHandles,
                  fallingObjectColliderHandles, seesawColliderHandles,
                  activeConveyorContacts, world, beltTouch, removed, eventQueue, timers,
                  pendingLoads, attempt, scheduled, touching, belt, button, drawing, probe, levelData, issueOps >>

(* ------------------------ Game.applyAcceleration ----------------------- *)
Sign(x) == IF x > 0 THEN 1 ELSE IF x < 0 THEN -1 ELSE 0

\* Game.applyAcceleration for a belt at angle 0: the velocity of the body
\* along the belt after the impulse F * dt = m * a * dt, or unchanged
applyAcceleration(vel, conveyorAcceleration, maxVelocity, direction, dt) ==
  LET acceleration == conveyorAcceleration * direction
      effectiveMaxVel == maxVelocity * Sign(acceleration)
      shouldApply == IF acceleration > 0 THEN vel < effectiveMaxVel
                     ELSE vel > effectiveMaxVel
  IN IF shouldApply THEN vel + acceleration * dt ELSE vel

\* the conveyor loop of Game.update for one contact, the body acted on by
\* the belt only; direction is 1 above the belt centre, -1 below it
BeltTick ==
  \E dt \in 1..MaxBeltDt, direction \in { 1, -1 } :
    /\ belt' = [belt EXCEPT
                  !.vel = applyAcceleration(@, belt.acceleration, belt.maxVelocity,
                                            direction, dt),
                  !.dir = direction]
    /\ UNCHANGED << gameState, hasStarted, currentLevelIndex, autoRestartTimeout,
                    balls, fallingObjects, iceBlocks, lasers, conveyors,
                    drawnLines, ballColliderHandles, iceBlockColliderHandles,
                    laserColliderHandles, conveyorHandles,
                    drawnLineColliderHandles, fallingObjectColliderHandles,
                    seesawColliderHandles, activeConveyorContacts, world,
                    beltTouch, removed, eventQueue, timers, pendingLoads, attempt,
                    scheduled, touching, last, button, drawing, probe,
                    levelData, issueOps >>

(* -------------------------------- Button ------------------------------- *)
\* Button time is counted in steps of 0.05 s; sinkProgress is kept multiplied
\* by SINK_DURATION, so "sinkProgress >= 1" reads sinkProgress >= SINK_DURATION
SINK_DURATION == 5

\* new Button(physicsWorld, config); translation is the displacement of the
\* body from initialPhysicsPos in units of sinkDistance / SCALE / SINK_DURATION,
\* completions counts the invocations of the sink callback
NewButton(angle) ==
  [ angle |-> angle, isSinking |-> FALSE, sinkProgress |-> 0,
    sinkCallback |-> "null", translation |-> << 0, 0 >>, completions |-> 0,
    updates |-> 0 ]

\* Button.triggerSink(onComplete)
triggerSink(b, onComplete) ==
  IF b.isSinking THEN b
  ELSE [b EXCEPT !.isSinking = TRUE, !.sinkProgress = 0,
                 !.sinkCallback = onComplete, !.completions = 0, !.updates = 0]

\* Button.update(scaleFactor, deltaTime); updates counts the calls made
\* while the button is sinking
ButtonUpdate(b, deltaTime) ==
  IF ~b.isSinking THEN b
  ELSE LET sinkProgress == b.sinkProgress + deltaTime
           \* sin and cos of a design angle that is a multiple of 90 degrees
           Sin90(angle) == IF angle = 90 THEN 1 ELSE IF angle = 270 THEN -1 ELSE 0
           Cos90(angle) == IF angle = 0 THEN 1 ELSE IF angle = 180 THEN -1 ELSE 0
       IN IF sinkProgress >= SINK_DURATION
          THEN [b EXCEPT !.sinkProgress = sinkProgress, !.updates = @ + 1,
                         !.completions = IF b.sinkCallback # "null" THEN @ + 1 ELSE @]
          ELSE [b EXCEPT !.sinkProgress = sinkProgress, !.updates = @ + 1,
                         !.translation = << -Sin90(b.angle) * sinkProgress,
                                            -Cos90(b.angle) * sinkProgress >>]

NoButton == NewButton(0)

(* --------------------------- DrawingManager ---------------------------- *)
LINE_MIN_DISTANCE == 20

\* "Offset slightly back to avoid sticking to the object"
WALL_OFFSET == 3

\* no intersection (null)
NoPoint == << >>

\* the rectangles the restricted areas provider returns
RestrictedAreas == << [ x |-> 50, y |-> 50, width |-> 50, height |-> 100 ] >>

\* the pointer positions of the events: one row across the restricted area
DrawPoints == { << x, 100 >> : x \in { 10, 30, 60, 120 } }

\* new DrawingManager(stage), then enable(): provider tells whether
\* setRestrictedAreasProvider has been called.  startPoint is the point of
\* the last pointer-down, calls the invocations of onLineComplete, each with
\* the startPoint of its gesture; gestures and moves count the events
NewDrawingManager(provider) ==
  [ restrictedAreasProvider |-> provider, isDrawing |-> FALSE,
    isValidStart |-> FALSE, currentPoints |-> << >>,
    currentGraphics |-> FALSE, startPoint |-> NoPoint, calls |-> << >>,
    gestures |-> 0, moves |-> 0 ]

NoDrawing == NewDrawingManager(FALSE)

\* an isPointInRestrictedArea that lets every start through
NoPointRestricted(d, point) == FALSE

\* PIXI.Rectangle.contains(x, y)
Contains(area, x, y) ==
  /\ area.width > 0 /\ area.height > 0
  /\ x >= area.x /\ x < area.x + area.width
  /\ y >= area.y /\ y < area.y + area.height

\* this.restrictedAreasProvider(), empty when no provider is set
Areas(d) == IF d.restrictedAreasProvider THEN RestrictedAreas ELSE << >>

\* DrawingManager.isPointInRestrictedArea
isPointInRestrictedArea(d, point) ==
  \E i \in DOMAIN Areas(d) : Contains(Areas(d)[i], point[1], point[2])

\* the four edges of a rectangle: top, right, bottom, left
Edges(area) ==
  LET left == area.x
      right == area.x + area.width
      top == area.y
      bottom == area.y + area.height
  IN << << << left, top >>, << right, top >> >>,
        << << right, top >>, << right, bottom >> >>,
        << << right, bottom >>, << left, bottom >> >>,
        << << left, bottom >>, << left, top >> >> >>

\* DrawingManager.lineIntersectsLine
lineIntersectsLine(p1, p2, p3, p4) ==
  LET ccw(a, b, c) == (c[2] - a[2]) * (b[1] - a[1]) > (b[2] - a[2]) * (c[1] - a[1])
  IN /\ ccw(p1, p3, p4) # ccw(p2, p3, p4)
     /\ ccw(p1, p2, p3) # ccw(p1, p2, p4)

\* DrawingManager.intersectsRestrictedArea
intersectsRestrictedArea(d, p1, p2) ==
  \E i \in DOMAIN Areas(d) :
    LET area == Areas(d)[i]
    IN \/ Contains(area, p1[1], p1[2])
       \/ Contains(area, p2[1], p2[2])
       \/ \E k \in 1..4 :
            lineIntersectsLine(p1, p2, Edges(area)[k][1], Edges(area)[k][2])

\* The body of the edge loop of getClosestIntersection for the edge p3-p4:
\* whether the segment p1-p2 meets it, where, and the square of the distance
\* from p1.  On the pointer row of DrawPoints every quotient is a whole number
EdgeIntersection(p1, p2, p3, p4) ==
  LET den == (p1[1] - p2[1]) * (p3[2] - p4[2]) - (p1[2] - p2[2]) * (p3[1] - p4[1])
      t == (p1[1] - p3[1]) * (p3[2] - p4[2]) - (p1[2] - p3[2]) * (p3[1] - p4[1])
      u == -((p1[1] - p2[1]) * (p1[2] - p3[2]) - (p1[2] - p2[2]) * (p1[1] - p3[1]))
      \* 0 <= num / den <= 1
      InUnit(num) == IF den > 0 THEN 0 <= num /\ num <= den ELSE den <= num /\ num <= 0
  IN IF den = 0 \/ ~InUnit(t) \/ ~InUnit(u)
     THEN [ hit |-> FALSE, at |-> NoPoint, dist2 |-> 0 ]
     ELSE [ hit |-> TRUE,
            at |-> << p1[1] + (t * (p2[1] - p1[1])) \div den,
                      p1[2] + (t * (p2[2] - p1[2])) \div den >>,
            dist2 |-> ((t * (p2[1] - p1[1])) \div den) * ((t * (p2[1] - p1[1])) \div den)
                      + ((t * (p2[2] - p1[2])) \div den) * ((t * (p2[2] - p1[2])) \div den) ]

\* DrawingManager.getClosestIntersection: the first of the closest
\* intersections with the edges of all areas, in the order the loops visit them
getClosestIntersection(d, p1, p2) ==
  LET found == [n \in 1..(4 * Len(Areas(d))) |->
                  EdgeIntersection(p1, p2,
                                   Edges(Areas(d)[(n - 1) \div 4 + 1])[((n - 1) % 4) + 1][1],
                                   Edges(Areas(d)[(n - 1) \div 4 + 1])[((n - 1) % 4) + 1][2])]
      hits == { k \in DOMAIN found : found[k].hit }
  IN IF hits = {} THEN NoPoint
     ELSE found[CHOOSE k \in hits :
                  \A j \in hits : found[k].dist2 < found[j].dist2
                                   \/ (found[k].dist2 = found[j].dist2 /\ k <= j)].at

\* distanceSampling(points, minDistance): kept lists the indices kept so far
RECURSIVE SampleFrom(_, _, _, _)
SampleFrom(points, minDistance, kept, i) ==
  IF i > Len(points)
  THEN IF kept[Len(kept)] # Len(points) THEN Append(kept, Len(points)) ELSE kept
  ELSE LET lastPoint == points[kept[Len(kept)]]
           dx == points[i][1] - lastPoint[1]
           dy == points[i][2] - lastPoint[2]
       IN SampleFrom(points, minDistance,
                     IF dx * dx + dy * dy >= minDistance * minDistance
                     THEN Append(kept, i) ELSE kept,
                     i + 1)

distanceSampling(points, minDistance) ==
  IF Len(points) <= 1 THEN points
  ELSE LET kept == SampleFrom(points, minDistance, << 1 >>, 2)
       IN [k \in DOMAIN kept |-> points[kept[k]]]

\* DrawingManager.onPointerDown
onPointerDown(d, startPoint) ==
  [d EXCEPT !.isValidStart = ~isPointInRestrictedArea(d, startPoint),
            !.isDrawing = TRUE,
            !.currentGraphics = TRUE,
            !.currentPoints = << startPoint >>,
            !.startPoint = startPoint,
            !.gestures = @ + 1, !.moves = 0]

\* onPointerMove when the segment from lastPoint to the pointer hits a
\* restricted area: "If the segment to the wall is long enough, add it"
clipAtWall(moved, lastPoint, intersection) ==
  IF intersection = NoPoint THEN moved
  ELSE LET dx == intersection[1] - lastPoint[1]
           dy == intersection[2] - lastPoint[2]
           \* Math.sqrt of a square number, else the floor of the root; it
           \* is at most |dx| + |dy|
           distToIntersect ==
             CHOOSE r \in 0..((IF dx < 0 THEN -dx ELSE dx) + (IF dy < 0 THEN -dy ELSE dy)) :
               r * r <= dx * dx + dy * dy /\ dx * dx + dy * dy < (r + 1) * (r + 1)
       IN IF distToIntersect >= LINE_MIN_DISTANCE /\ distToIntersect > WALL_OFFSET
          THEN [moved EXCEPT !.currentPoints =
                  Append(@, << lastPoint[1] + (dx * (distToIntersect - WALL_OFFSET))
                                               \div distToIntersect,
                               lastPoint[2] + (dy * (distToIntersect - WALL_OFFSET))
                                               \div distToIntersect >>)]
          ELSE moved

\* DrawingManager.onPointerMove; redrawCurrentLine only paints
onPointerMove(d, point) ==
  IF ~d.isDrawing \/ ~d.currentGraphics THEN d
  ELSE IF ~d.isValidStart THEN [d EXCEPT !.moves = @ + 1]
  ELSE IF intersectsRestrictedArea(d, d.currentPoints[Len(d.currentPoints)], point)
  THEN clipAtWall([d EXCEPT !.moves = @ + 1], d.currentPoints[Len(d.currentPoints)],
                  getClosestIntersection(d, d.currentPoints[Len(d.currentPoints)], point))
  ELSE IF (point[1] - d.currentPoints[Len(d.currentPoints)][1])
            * (point[1] - d.currentPoints[Len(d.currentPoints)][1])
          + (point[2] - d.currentPoints[Len(d.currentPoints)][2])
            * (point[2] - d.currentPoints[Len(d.currentPoints)][2])
          >= LINE_MIN_DISTANCE * LINE_MIN_DISTANCE
  THEN [d EXCEPT !.moves = @ + 1, !.currentPoints = Append(@, point)]
  ELSE [d EXCEPT !.moves = @ + 1]

\* DrawingManager.onPointerUp
onPointerUp(d) ==
  IF ~d.isDrawing THEN d
  ELSE LET simplifiedPoints == distanceSampling(d.currentPoints, LINE_MIN_DISTANCE)
           ended == [d EXCEPT !.isDrawing = FALSE, !.currentGraphics = FALSE,
                              !.currentPoints = << >>]
       IN IF /\ Len(d.currentPoints) >= 1 /\ d.isValidStart
             /\ Len(simplifiedPoints) >= 1
          THEN [ended EXCEPT !.calls = Append(@, [ points |-> simplifiedPoints,
                                                   startPoint |-> d.startPoint ])]
          ELSE ended

NoProbe == [ fn |-> "none", arg |-> << >>, out |-> << >>, applied |-> FALSE ]

GameIdle ==
  UNCHANGED << gameState, hasStarted, currentLevelIndex, autoRestartTimeout,
               balls, fallingObjects, iceBlocks, lasers, conveyors,
               drawnLines, ballColliderHandles, iceBlockColliderHandles,
               laserColliderHandles, conveyorHandles,
               drawnLineColliderHandles, fallingObjectColliderHandles,
               seesawColliderHandles, activeConveyorContacts, world,
               beltTouch, removed, eventQueue, timers, pendingLoads, attempt,
               scheduled, touching, last, belt, levelData >>

\* the owner of the button reports a ball press
ButtonPress ==
  /\ button' = triggerSink(button, "onComplete")
  /\ GameIdle /\ UNCHANGED << drawing, probe, issueOps >>

\* the owner of the button updates it once per frame
ButtonFrame ==
  \E deltaTime \in 0..MaxButtonDt :
    /\ button.updates < MaxButtonUpdates
    /\ button' = ButtonUpdate(button, deltaTime)
    /\ GameIdle /\ UNCHANGED << drawing, probe, issueOps >>

\* the pointerdown, pointermove and pointerup / pointerupoutside events of
\* the interaction area
PointerDown ==
  \E startPoint \in DrawPoints :
    /\ drawing.gestures < MaxGestures
    /\ drawing' = onPointerDown(drawing, startPoint)
    /\ GameIdle /\ UNCHANGED << button, probe, issueOps >>

PointerMove ==
  \E point \in DrawPoints :
    /\ drawing.moves < MaxMoves
    /\ drawing' = onPointerMove(drawing, point)
    /\ GameIdle /\ UNCHANGED << button, probe, issueOps >>

PointerUp ==
  /\ drawing' = onPointerUp(drawing)
  /\ GameIdle /\ UNCHANGED << button, probe, issueOps >>

(* ------------------ issue processor (process_issue.cjs) ---------------- *)
\* issueOps = [db, issue, failed, message, written, before, runs]: the content
\* of data.json, the issue of the last run, whether the run called
\* core.setFailed and with what, how often it wrote data.json, the content
\* of data.json before it, and the number of runs so far
MaxRuns == 2

\* a JSON value: t is its type and v its content; the content of an object
\* is the function from its keys to their values
Json(t, v) == [t |-> t, v |-> v]

\* obj[key]: undefined when the object has no such key
Get(obj, key) == IF key \in DOMAIN obj THEN obj[key] ELSE Json("undefined", "")

\* github.context.payload.issue of a run without an issue
NoIssue == [ number |-> 0, user |-> [login |-> ""], body |-> << >> ]

NoIssueOps ==
  [ db |-> [exists |-> FALSE, users |-> EmptyMap], issue |-> NoIssue,
    failed |-> FALSE, message |-> "", written |-> 0,
    before |-> [exists |-> FALSE, users |-> EmptyMap], runs |-> 0 ]

\* the issues of the model: the author's login, and a body of up to three
\* sections "### key", blank line, value, blank line; a section can be absent
\* or hold an empty value
Issues ==
  LET Section(key, value) ==
        IF value = "(absent)" THEN << >>
        ELSE << [heading |-> TRUE, text |-> key], [heading |-> FALSE, text |-> ""],
                [heading |-> FALSE, text |-> value], [heading |-> FALSE, text |-> ""] >>
  IN { [ number |-> 1, user |-> [login |-> login],
         body |-> Section("Username", username) \o Section("Action Type", action)
                    \o Section("Payload", payload) ] :
       login \in { "alice", "bob" },
       username \in { "(absent)", "bob" },
       action \in { "(absent)", "", "update_profile", "publish_level", "delete_level",
                    "rename_user" },
       payload \in { "(absent)", "{}", "{\"avatar\":\"a.png\"}", "{\"avatar\":7}",
                     "{\"id\":\"X\",\"data\":{\"title\":\"one\"}}",
                     "{\"id\":\"X\",\"data\":{\"title\":\"two\"}}",
                     "{\"id\":\"X\",\"data\":{\"id\":\"Y\"}}",
                     "{\"id\":\"Y\"}", "{\"id\":7}", "{\"id\":" } }

\* buffer.join('\n').trim(): the lines of the buffer without the blank lines
\* at its two ends; no line at all is the empty string
RECURSIVE TrimLines(_)
TrimLines(buffer) ==
  IF buffer = << >> THEN << >>
  ELSE IF Head(buffer) = "" THEN TrimLines(Tail(buffer))
  ELSE IF buffer[Len(buffer)] = "" THEN TrimLines(SubSeq(buffer, 1, Len(buffer) - 1))
  ELSE buffer

\* parseIssueBody(body): a line that matches /^###\s+(.+)$/ opens the key it
\* names, the lines up to the next such line are its value; of two sections
\* with one key the later one stays
parseIssueBody(body) ==
  LET headings == { i \in DOMAIN body : body[i].heading }
      end(i) == IF \E j \in headings : j > i
                THEN CHOOSE j \in headings : j > i /\ \A k \in headings : k > i => j <= k
                ELSE Len(body) + 1
      lastOf(key) == CHOOSE i \in headings :
                       /\ body[i].text = key
                       /\ \A j \in headings : body[j].text = key => j <= i
  IN [ key \in { body[i].text : i \in headings } |->
         TrimLines([ n \in 1..(end(lastOf(key)) - lastOf(key) - 1) |->
                       body[lastOf(key) + n].text ]) ]

\* JSON.parse(rawPayload), for the payload texts of the model; two lines of
\* them never make one JSON text
JSONParse(raw) ==
  IF Len(raw) # 1 THEN Json("throw", "SyntaxError")
  ELSE CASE raw[1] = "{}" -> Json("object", EmptyMap)
         [] raw[1] = "{\"avatar\":\"a.png\"}" ->
              Json("object", [avatar |-> Json("string", "a.png")])
         [] raw[1] = "{\"avatar\":7}" ->
              Json("object", [avatar |-> Json("number", "7")])
         [] raw[1] = "{\"id\":\"X\",\"data\":{\"title\":\"one\"}}" ->
              Json("object", [id |-> Json("string", "X"),
                              data |-> Json("object", [title |-> Json("string", "one")])])
         [] raw[1] = "{\"id\":\"X\",\"data\":{\"title\":\"two\"}}" ->
              Json("object", [id |-> Json("string", "X"),
                              data |-> Json("object", [title |-> Json("string", "two")])])
         [] raw[1] = "{\"id\":\"X\",\"data\":{\"id\":\"Y\"}}" ->
              Json("object", [id |-> Json("string", "X"),
                              data |-> Json("object", [id |-> Json("string", "Y")])])
         [] raw[1] = "{\"id\":\"Y\"}" -> Json("object", [id |-> Json("string", "Y")])
         [] raw[1] = "{\"id\":7}" -> Json("object", [id |-> Json("number", "7")])
         [] OTHER -> Json("throw", "SyntaxError")

\* PayloadSchemas: of each action the keys that hold a string, those of them
\* that are required, and the keys that hold anything
PayloadSchemas ==
  [ update_profile |-> [strings |-> {"avatar"}, required |-> {}, any |-> {}],
    publish_level |-> [strings |-> {"id"}, required |-> {"id"}, any |-> {"data"}],
    delete_level |-> [strings |-> {"id"}, required |-> {"id"}, any |-> {}] ]

\* a schema that takes every payload
ParseAnything(schema, payload) ==
  Json("object", IF payload.t = "object" THEN payload.v ELSE EmptyMap)

\* schema.parse(payload): the object stripped of the keys the schema does not
\* name, or a ZodError
SchemaParse(schema, payload) ==
  IF \/ payload.t # "object"
     \/ \E k \in schema.required : k \notin DOMAIN payload.v
     \/ \E k \in schema.strings \cap DOMAIN payload.v : payload.v[k].t # "string"
  THEN Json("throw", "ZodError")
  ELSE Json("object", [ k \in (schema.strings \cup schema.any) \cap DOMAIN payload.v |->
                          payload.v[k] ])

\* the Username section of the issue body, where it names one
BodyUsername(issue) ==
  LET bodyData == parseIssueBody(issue.body)
  IN IF "Username" \in DOMAIN bodyData /\ Len(bodyData["Username"]) = 1
     THEN bodyData["Username"][1] ELSE issue.user.login

\* const username = issue.user.login
Author(issue) == issue.user.login

\* catch (error) { core.setFailed(error.message) }
setFailed(o, issue, message) ==
  [o EXCEPT !.issue = issue, !.failed = TRUE, !.message = message,
            !.written = 0, !.before = o.db, !.runs = @ + 1]

\* case 'publish_level': the level built from the payload takes the place of
\* the first level with the payload's id, or is pushed
publishLevel(levels, validatedPayload, now) ==
  LET data == Get(validatedPayload, "data")
      spread == IF data.t = "object" THEN data.v ELSE EmptyMap
      level == [ k \in {"id"} \cup DOMAIN spread \cup {"updatedAt"} |->
                   IF k = "updatedAt" THEN Json("string", now)
                   ELSE IF k \in DOMAIN spread THEN spread[k]
                   ELSE validatedPayload.id ]
      existing == { i \in DOMAIN levels : Get(levels[i], "id") = validatedPayload.id }
  IN IF existing # {}
     THEN [levels EXCEPT ![CHOOSE i \in existing : \A j \in existing : i <= j] = level]
     ELSE Append(levels, level)

\* run, from "Load DB" to "Save DB"
applyChanges(o, issue, username, action, validatedPayload) ==
  LET users == IF username \in DOMAIN o.db.users THEN o.db.users
               ELSE [ u \in DOMAIN o.db.users \cup {username} |->
                        IF u = username
                        THEN [avatar |-> Json("null", "null"), levels |-> << >>]
                        ELSE o.db.users[u] ]
      now == << "2024-01-24T12:00:00Z", "2024-01-24T12:00:01Z", "2024-01-24T12:00:02Z",
                "2024-01-24T12:00:03Z", "2024-01-24T12:00:04Z" >>[o.runs + 1]
      user ==
        CASE action = "update_profile" ->
               IF "avatar" \in DOMAIN validatedPayload
               THEN [users[username] EXCEPT !.avatar = validatedPayload.avatar]
               ELSE users[username]
          [] action = "publish_level" ->
               [users[username] EXCEPT !.levels = publishLevel(@, validatedPayload, now)]
          [] action = "delete_level" ->
               [users[username] EXCEPT
                  !.levels = SelectSeq(@, LAMBDA l : Get(l, "id") # validatedPayload.id)]
  IN [o EXCEPT !.db = [exists |-> TRUE, users |-> [users EXCEPT ![username] = user]],
               !.issue = issue, !.failed = FALSE, !.message = "",
               !.written = IF o.db.exists THEN 1 ELSE 2,
               !.before = o.db, !.runs = @ + 1]

\* run, from the required fields to schema.parse
validate(o, issue, username, action, rawPayload) ==
  IF action = << >> \/ rawPayload = << >>
  THEN setFailed(o, issue, "Missing required fields (Action Type, Payload).")
  ELSE IF JSONParse(rawPayload).t = "throw"
  THEN setFailed(o, issue, "Invalid JSON in Payload field")
  ELSE IF Len(action) # 1 \/ action[1] \notin DOMAIN PayloadSchemas
  THEN setFailed(o, issue, "Unknown action type")
  ELSE IF SchemaParse(PayloadSchemas[action[1]], JSONParse(rawPayload)).t = "throw"
  THEN setFailed(o, issue, "ZodError")
  ELSE applyChanges(o, issue, username, action[1],
                    SchemaParse(PayloadSchemas[action[1]], JSONParse(rawPayload)).v)

\* run()
run(o, token, issue) ==
  IF ~token THEN setFailed(o, issue, "GITHUB_TOKEN is missing")
  ELSE IF issue = NoIssue THEN setFailed(o, issue, "No issue payload found")
  ELSE LET bodyData == parseIssueBody(issue.body)
       IN validate(o, issue, Author(issue),
                   IF "Action Type" \in DOMAIN bodyData THEN bodyData["Action Type"]
                   ELSE << >>,
                   IF "Payload" \in DOMAIN bodyData THEN bodyData["Payload"] ELSE << >>)

\* the workflow runs the script on an issue
ProcessIssue ==
  \E token \in BOOLEAN, issue \in Issues \cup { NoIssue } :
    /\ issueOps.runs < MaxRuns
    /\ issueOps' = run(issueOps, token, issue)
    /\ GameIdle /\ UNCHANGED << button, drawing, probe >>

(* ------------------- pure functions applied to inputs ------------------ *)
\* probe = [fn, arg, out, applied]: the function, its argument, and once
\* applied its result
Probe(fn, arg) == [ fn |-> fn, arg |-> arg, out |-> << >>, applied |-> FALSE ]

Applied(fn) == probe.fn = fn /\ probe.applied

Apply(fn, out) ==
  /\ probe.fn = fn /\ ~probe.applied
  /\ probe' = [probe EXCEPT !.out = out, !.applied = TRUE]
  /\ GameIdle /\ UNCHANGED << button, drawing, issueOps >>

\* new DrawnLine(physicsWorld, points): the shapes of its colliders
ProbeDrawnLine == Apply("DrawnLine", NewDrawnLine(probe.arg, 0).shapes)

\* toPhysics of a pixel position, and back through toPixels
ProbeTransform ==
  LET physics == toPhysicsF64(<< FromInt(probe.arg[1]), FromInt(probe.arg[2]) >>)
  IN Apply("transform", [ physics |-> physics, pixels |-> toPixelsF64(physics) ])

(* ----------------------------- specification --------------------------- *)
BeltAtRest == [ vel |-> 0, acceleration |-> 1, maxVelocity |-> MaxBeltVel, dir |-> 0 ]

\* the Game after init(): level 3 loaded, nothing drawn, no timer
InitGame(lv) ==
  /\ gameState = lv.gameState
  /\ hasStarted = lv.hasStarted
  /\ currentLevelIndex = 3
  /\ autoRestartTimeout = lv.autoRestartTimeout
  /\ balls = lv.balls
  /\ fallingObjects = lv.fallingObjects
  /\ iceBlocks = lv.iceBlocks
  /\ lasers = lv.lasers
  /\ conveyors = lv.conveyors
  /\ drawnLines = lv.drawnLines
  /\ ballColliderHandles = lv.ballColliderHandles
  /\ iceBlockColliderHandles = lv.iceBlockColliderHandles
  /\ laserColliderHandles = lv.laserColliderHandles
  /\ conveyorHandles = lv.conveyorHandles
  /\ drawnLineColliderHandles = lv.drawnLineColliderHandles
  /\ fallingObjectColliderHandles = lv.fallingObjectColliderHandles
  /\ seesawColliderHandles = lv.seesawColliderHandles
  /\ activeConveyorContacts = lv.activeConveyorContacts
  /\ world = lv.world
  /\ beltTouch = {}
  /\ removed = {}
  /\ eventQueue = << >>
  /\ timers = {}
  /\ pendingLoads = << >>
  /\ attempt = 0
  /\ scheduled = 0
  /\ touching = {}
  /\ last = NoLast

\* the level file is one of three
Init ==
  \E data \in { { LaserSlot, Laser2Slot, FallingSlot }, { ConveyorSlot }, { IceSlot } } :
    /\ levelData = data
    /\ InitGame(LevelState(0, data))
    /\ issueOps = NoIssueOps
    /\ belt = BeltAtRest
    /\ button = NoButton /\ drawing = NoDrawing /\ probe = NoProbe

Next == Tick \/ StartGame \/ OnLineDrawn \/ RestartClick \/ TimerFire \/ LoadComplete

Spec == Init /\ [][Next]_vars

\* the entity methods driven directly during one level attempt, on the
\* level with a falling object
InitApi ==
  /\ levelData = { LaserSlot, FallingSlot }
  /\ InitGame(LevelState(0, levelData))
  /\ issueOps = NoIssueOps
  /\ belt = BeltAtRest
  /\ button = NoButton /\ drawing = NoDrawing /\ probe = NoProbe

NextApi == Tick \/ StartGame \/ OnLineDrawn \/ ActivateApi

SpecApi == InitApi /\ [][NextApi]_vars

\* a body riding a belt: any belt configuration, any start velocity within
\* the cap
InitBelt ==
  /\ levelData = { ConveyorSlot }
  /\ InitGame(LevelState(0, levelData))
  /\ issueOps = NoIssueOps
  /\ \E a \in -MaxBeltAcc..MaxBeltAcc, m \in 1..MaxBeltVel, v \in -MaxBeltVel..MaxBeltVel :
       /\ -m <= v /\ v <= m
       /\ belt = [ vel |-> v, acceleration |-> a, maxVelocity |-> m, dir |-> 0 ]
  /\ button = NoButton /\ drawing = NoDrawing /\ probe = NoProbe

NextBelt == BeltTick

SpecBelt == InitBelt /\ [][NextBelt]_vars

\* the Game on a level of two balls when every timer fires and every level
\* load resolves with level data: the event loop runs a due timer callback
\* and resumes loadLevel after its await
InitLive ==
  /\ levelData = {}
  /\ InitGame(LevelState(0, levelData))
  /\ issueOps = NoIssueOps
  /\ belt = BeltAtRest
  /\ button = NoButton /\ drawing = NoDrawing /\ probe = NoProbe

NextLive == Tick \/ StartGame \/ OnLineDrawn \/ RestartClick \/ TimerFire \/ LoadSucceeds

SpecLive ==
  InitLive /\ [][NextLive]_vars /\ WF_vars(TimerFire) /\ WF_vars(LoadSucceeds)

\* a button of any design angle, pressed and updated by its owner
InitButton ==
  /\ levelData = {}
  /\ InitGame(LevelState(0, levelData))
  /\ issueOps = NoIssueOps
  /\ belt = BeltAtRest
  /\ \E angle \in { 0, 90, 180, 270 } : button = NewButton(angle)
  /\ drawing = NoDrawing /\ probe = NoProbe

NextButton == ButtonPress \/ ButtonFrame

SpecButton == InitButton /\ [][NextButton]_vars

\* Obstacle.constructor for the 'c_shape' type: the number of fixtures the
\* static body ends with and whether the graphics were stroked.  D is the
\* determinant of the circumcenter formula; on whole coordinates
\* Math.abs(D) < 0.001 is D = 0
ArcDeterminant(points) ==
  LET x1 == points[1][1]
      y1 == points[1][2]
      x2 == points[2][1]
      y2 == points[2][2]
      x3 == points[3][1]
      y3 == points[3][2]
  IN 2 * (x1 * (y2 - y3) + x2 * (y3 - y1) + x3 * (y1 - y2))

ARC_SEGMENTS == 10

NewObstacle(config) ==
  IF Len(config.points) = 3 /\ config.thickness # 0
  THEN IF ArcDeterminant(config.points) = 0
       THEN \* "Collinear points, treat as straight line p1-p3": the stroke
            \* is drawn and the constructor returns
            [ fixtures |-> 0, stroked |-> TRUE ]
       ELSE [ fixtures |-> ARC_SEGMENTS + (IF config.cap = "round" THEN 2 ELSE 0),
              stroked |-> TRUE ]
  ELSE \* break with shape undefined
       [ fixtures |-> 0, stroked |-> FALSE ]

ProbeObstacle == Apply("Obstacle", NewObstacle(probe.arg))

\* a DrawingManager with or without a restricted areas provider
InitDraw ==
  /\ levelData = {}
  /\ InitGame(LevelState(0, levelData))
  /\ issueOps = NoIssueOps
  /\ belt = BeltAtRest
  /\ button = NoButton /\ probe = NoProbe
  /\ \E provider \in BOOLEAN : drawing = NewDrawingManager(provider)

NextDraw == PointerDown \/ PointerMove \/ PointerUp

SpecDraw == InitDraw /\ [][NextDraw]_vars

\* data.json is there, without users, or is not there
InitIssue ==
  /\ levelData = {}
  /\ InitGame(LevelState(0, levelData))
  /\ belt = BeltAtRest
  /\ button = NoButton /\ drawing = NoDrawing /\ probe = NoProbe
  /\ \E exists \in BOOLEAN :
       issueOps = [NoIssueOps EXCEPT !.db.exists = exists, !.before.exists = exists]

NextIssue == ProcessIssue

SpecIssue == InitIssue /\ [][NextIssue]_vars

\* one pure function applied to one input drawn from its bounded input set
InitProbe ==
  /\ levelData = {}
  /\ InitGame(LevelState(0, levelData))
  /\ issueOps = NoIssueOps
  /\ belt = BeltAtRest
  /\ button = NoButton /\ drawing = NoDrawing
  /\ \/ \E n \in 1..MaxProbePoints :
          \E points \in [1..n -> Points \cup { << 600, 301 >> }] :
            probe = Probe("DrawnLine", points)
     \/ \E p \in (0..MaxPixel) \X { -31, 0, 60 } : probe = Probe("transform", p)
     \/ \E n \in 2..MaxProbePoints :
          \E points \in [1..n -> { << 0, 0 >>, << 50, 0 >>, << 100, 0 >>, << 50, 50 >> }],
             thickness \in { 0, 10 }, cap \in { "round", "butt" } :
            probe = Probe("Obstacle", [ points |-> points, thickness |-> thickness,
                                        cap |-> cap ])

NextProbe == ProbeDrawnLine \/ ProbeTransform \/ ProbeObstacle

SpecProbe == InitProbe /\ [][NextProbe]_vars

(* ------------------------------ properties ----------------------------- *)
\* C1: once the session state is Won or Lost it keeps that value through
\* every handler, and within a tick, until a level load resets it: no later
\* entry of a handler's state trace differs from an earlier Won or Lost one.
C1_TerminalUntilReload ==
  last.op # "load" =>
    \A i, j \in DOMAIN last.trace :
      (i < j /\ last.trace[i] \in { WON, LOST }) => last.trace[j] = last.trace[i]

\* C2: a tick taken while Playing whose solver step reported a contact-start
\* between the two ball colliders returns with the session Won.
C2_BallContactWins ==
  (last.op = "tick" /\ last.ballContact) => gameState = WON

\* C3: a tick taken while Playing whose solver step left a ball body beyond
\* the 2 * BALL_RADIUS margin returns with the session Lost.
C3_CrossingLosesSameTick ==
  (last.op = "tick" /\ last.crossed) => gameState = LOST

\* C4 (as the code has it): a tick taken while the session is Lost does not
\* step the solver and updates no ball and no other entity; only the laser
\* flip timers advance.
C4_NoUpdatesAfterLoss ==
  [][(gameState = LOST /\ last'.op = "tick") =>
       /\ ~last'.stepped
       /\ \A i \in DOMAIN lasers : lasers'[i] # lasers[i]
       /\ UNCHANGED << gameState, balls, fallingObjects, iceBlocks, conveyors,
                       drawnLines, activeConveyorContacts, world, beltTouch, removed,
                       eventQueue >>]_vars

\* C4 witness: a tick has run after a loss that removed one ball
C4_TickAfterLoss ==
  gameState = LOST /\ last.op = "tick" /\ ~last.stepped /\ Len(balls) = 1

\* C4 as stated: a tick taken while the session is Lost steps the solver.
C4_TicksAfterLossStep ==
  [][(gameState = LOST /\ last'.op = "tick") => last'.stepped]_vars

\* C5: no level load that was started during an earlier level attempt resets
\* a level that finished loading after it was started.
C5_NoStaleReload == ~last.stale

C7_BodyTypeFollowsState ==
  /\ \A i \in DOMAIN balls :
       (balls[i].bodyType = "dynamic") <=> (gameState # READY)
  /\ \A i \in DOMAIN fallingObjects :
       (fallingObjects[i].bodyType = "dynamic") <=> (gameState # READY)

\* C7 witness: a level with a falling object, reloaded and started again
C7_StartedAfterReload ==
  /\ attempt >= 1
  /\ gameState = PLAYING
  /\ fallingObjects # << >>
  /\ \A i \in DOMAIN balls : balls[i].bodyType = "dynamic"

\* C8: a ball or falling object body that is dynamic stays dynamic for as
\* long as the entity exists, and activate on a dynamic body changes nothing.
C8_DynamicStaysDynamic ==
  [][/\ \A i \in DOMAIN balls, j \in DOMAIN balls' :
          (balls[i].handle = balls'[j].handle /\ balls[i].bodyType = "dynamic")
            => balls'[j].bodyType = "dynamic"
     /\ \A i \in DOMAIN fallingObjects, j \in DOMAIN fallingObjects' :
          (fallingObjects[i].handle = fallingObjects'[j].handle
             /\ fallingObjects[i].bodyType = "dynamic")
            => fallingObjects'[j].bodyType = "dynamic"
     /\ last'.op = "reactivate" => UNCHANGED << balls, fallingObjects >>]_vars

\* C8 witness: activate was called on a body that was already dynamic
C8_ActivatedTwice ==
  last.op = "reactivate" /\ \E i \in DOMAIN balls : balls[i].bodyType = "dynamic"

\* C9: whenever, by the routed contact-start and contact-end events, a
\* collider of a tracked body still touches a belt, the pair (body, belt) is
\* in the active conveyor contact set.
C9_TouchingBodyInContactSet ==
  \A p \in touching :
    LET h == p[1]
        body == IF h \in DOMAIN ballColliderHandles THEN ballColliderHandles[h]
                ELSE IF h \in DOMAIN drawnLineColliderHandles
                THEN drawnLineColliderHandles[h]
                ELSE IF h \in DOMAIN fallingObjectColliderHandles
                THEN fallingObjectColliderHandles[h]
                ELSE Lookup(seesawColliderHandles, h)
    IN body # Null =>
         \E i \in DOMAIN activeConveyorContacts :
           /\ activeConveyorContacts[i].body = body
           /\ activeConveyorContacts[i].conveyor = p[2]

\* C10: the velocity of a body along the direction the belt pushes it never
\* exceeds the belt's maxVelocity, whatever the elapsed time of the ticks.
C10_BeltSpeedCap ==
  belt.dir # 0 =>
    Sign(belt.acceleration * belt.dir) * belt.vel <= belt.maxVelocity

\* C11: a tick that routes a contact-start event naming an ice block that
\* was already melting neither resets its meltProgress nor clears its melting
\* flag: as long as the block is live its progress is the one it had plus the
\* elapsed time of the tick.
C11_MeltingNotReset ==
  [][\A i \in DOMAIN iceBlocks, j \in DOMAIN iceBlocks' :
       ( /\ last'.op = "tick"
         /\ iceBlocks[i].isMelting
         /\ iceBlocks'[j].handle = iceBlocks[i].handle
         /\ \E k \in DOMAIN last'.events :
              /\ last'.events[k].started
              /\ \E h \in { last'.events[k].h1, last'.events[k].h2 } :
                   Lookup(iceBlockColliderHandles, h) = iceBlocks[i].handle )
       => /\ iceBlocks'[j].isMelting
          /\ iceBlocks'[j].meltProgress = iceBlocks[i].meltProgress + last'.dt]_vars

\* C11 witness: a contact-start naming an ice block was routed in a tick the
\* block entered already melting, and the block is still live
C11_HitWhileMelting ==
  /\ last.op = "tick"
  /\ \E i \in DOMAIN iceBlocks, k \in DOMAIN last.events :
       /\ last.events[k].started
       /\ iceBlocks[i].handle \in { last.events[k].h1, last.events[k].h2 }
       /\ iceBlocks[i].meltProgress > last.dt

\* C12 (as the code has it): a tick with positive elapsed time taken while
\* the session is Ready or Playing strictly increases the meltProgress of
\* every melting ice block that is still live after it; a tick taken while
\* Won or Lost leaves the meltProgress as it was.
C12_MeltAdvancesUnlessOver ==
  [][\A i \in DOMAIN iceBlocks, j \in DOMAIN iceBlocks' :
       ( /\ last'.op = "tick"
         /\ last'.dt > 0
         /\ iceBlocks[i].isMelting
         /\ iceBlocks'[j].handle = iceBlocks[i].handle )
       => IF GameOver(gameState)
          THEN iceBlocks'[j].meltProgress = iceBlocks[i].meltProgress
          ELSE iceBlocks'[j].meltProgress > iceBlocks[i].meltProgress]_vars

\* C12 witness: a tick that routed no event advanced a block that entered it
\* melting
C12_MeltAdvanced ==
  /\ last.op = "tick" /\ last.stepped /\ last.events = << >>
  /\ \E i \in DOMAIN iceBlocks :
       iceBlocks[i].isMelting /\ iceBlocks[i].meltProgress > last.dt

\* C12 as stated: every tick with positive elapsed time strictly increases
\* the meltProgress of a melting ice block that is still live after it.
C12_MeltAdvancesEveryTick ==
  [][\A i \in DOMAIN iceBlocks, j \in DOMAIN iceBlocks' :
       ( /\ last'.op = "tick"
         /\ last'.dt > 0
         /\ iceBlocks[i].isMelting
         /\ iceBlocks'[j].handle = iceBlocks[i].handle )
       => iceBlocks'[j].meltProgress > iceBlocks[i].meltProgress]_vars

\* C13: a melting ice block is reported fully melted exactly once, by the
\* first update that takes its meltProgress to 1 (meltTime, in the units of
\* the model): the tick that reports it found it live and below 1, and
\* removes it from the live set, from its lookup table and from the World;
\* no live block has reached 1, and no tick brings a block back.
C13_MeltedReportedOnce ==
  [][/\ \A j \in DOMAIN iceBlocks' :
          iceBlocks'[j].meltProgress < iceBlocks'[j].meltTime
     /\ last'.op = "tick" =>
          /\ { iceBlocks'[j].handle : j \in DOMAIN iceBlocks' }
                \subseteq { iceBlocks[i].handle : i \in DOMAIN iceBlocks }
          /\ \A i \in DOMAIN iceBlocks :
               (iceBlocks[i].handle \in last'.melted)
                 <=> ( /\ last'.stepped
                       /\ iceBlocks[i].isMelting
                       /\ iceBlocks[i].meltProgress + last'.dt >= iceBlocks[i].meltTime )
          /\ \A h \in last'.melted :
               /\ \E i \in DOMAIN iceBlocks :
                    iceBlocks[i].handle = h /\ iceBlocks[i].meltProgress < iceBlocks[i].meltTime
               /\ \A j \in DOMAIN iceBlocks' : iceBlocks'[j].handle # h
               /\ h \notin DOMAIN iceBlockColliderHandles'
               /\ h \notin DOMAIN world']_vars

\* C13 witness: a tick reported the ice block of the level fully melted
C13_BlockMelted ==
  last.op = "tick" /\ last.melted # {} /\ iceBlocks = << >> /\ IceSlot \in levelData

\* C14: after every handler (tick, level load and the others) every collider
\* handle of a lookup table is a live collider of the World and both bodies
\* of every conveyor contact are in the World; and a tick whose routed events
\* all name a collider that was destroyed before the tick, and that finds no
\* ball out of bounds, leaves the session state, the live balls, the ball
\* table, the contact set, the reload timer and every melting flag as they were.
C14_TablesNameLiveBodies ==
  [][/\ (DOMAIN ballColliderHandles' \cup DOMAIN iceBlockColliderHandles'
          \cup DOMAIN laserColliderHandles' \cup DOMAIN conveyorHandles'
          \cup DOMAIN drawnLineColliderHandles'
          \cup DOMAIN fallingObjectColliderHandles'
          \cup DOMAIN seesawColliderHandles') \subseteq DOMAIN world'
     /\ \A i \in DOMAIN activeConveyorContacts' :
          /\ \E h \in DOMAIN world' : world'[h] = activeConveyorContacts'[i].body
          /\ \E h \in DOMAIN world' : world'[h] = activeConveyorContacts'[i].conveyor
     /\ ( /\ last'.op = "tick"
          /\ last'.events # << >> /\ last'.beltEvents = 0
          /\ \A k \in DOMAIN last'.events :
               last'.events[k].h1 \notin DOMAIN world
                 \/ last'.events[k].h2 \notin DOMAIN world
          /\ \A i \in DOMAIN balls : ~OutOfBounds(balls[i].gfx) )
        => /\ UNCHANGED << gameState, ballColliderHandles, activeConveyorContacts,
                           autoRestartTimeout, timers >>
           /\ Len(balls') = Len(balls)
           /\ \A i \in DOMAIN iceBlocks, j \in DOMAIN iceBlocks' :
                iceBlocks'[j].handle = iceBlocks[i].handle
                  => iceBlocks'[j].isMelting = iceBlocks[i].isMelting]_vars

\* C14 witness: while Playing, a tick routed the contact-end of a live ball
\* with an ice block that an earlier tick had melted and destroyed
C14_DestroyedHandleRouted ==
  /\ last.op = "tick" /\ gameState = PLAYING /\ last.melted = {}
  /\ iceBlocks = << >>
  /\ Len(last.events) = 1 /\ ~last.events[1].started
  /\ last.events[1].h1 \in DOMAIN ballColliderHandles
  /\ Kind(last.events[1].h2) = "ice"
  /\ last.events[1].h2 \notin DOMAIN world

\* C15: in every destruction (ball loss, melted ice block, level clear) the
\* body of the entity is removed from the World before its lookup-table
\* entry is cleared and before its presentation resources are released.
C15_WorldBeforeTableAndGfx ==
  \A i, j \in DOMAIN last.log :
    ( /\ last.log[i][2] = last.log[j][2]
      /\ last.log[i][1] = "world"
      /\ last.log[j][1] \in { "table", "gfx" } ) => i < j

\* C16: in every destruction (ball loss, melted ice block, level clear) the
\* handle of the entity is removed from its lookup table before its body is
\* removed from the World.
C16_TableBeforeWorld ==
  \A i, j \in DOMAIN last.log :
    ( /\ last.log[i][2] = last.log[j][2]
      /\ last.log[i][1] = "table"
      /\ last.log[j][1] = "world" ) => i < j

\* C17: a ball that a tick removes from the live set was lost in that tick:
\* the tick ends Lost, and the ball is gone from the ball collider table,
\* from every active conveyor contact and from the World; and every loss the
\* tick handled removed one live ball, so a loss reported again for a ball
\* that is no longer live did nothing.
C17_LostBallFullyRemoved ==
  [][last'.op = "tick" =>
       /\ \A i \in DOMAIN balls :
            (\A j \in DOMAIN balls' : balls'[j].handle # balls[i].handle)
              => /\ gameState' = LOST
                 /\ balls[i].handle \notin DOMAIN ballColliderHandles'
                 /\ balls[i].handle \notin DOMAIN world'
                 /\ \A k \in DOMAIN activeConveyorContacts' :
                      activeConveyorContacts'[k].body # balls[i].handle
       /\ Cardinality({ k \in 2..Len(last'.trace) : last'.trace[k] = LOST })
            = Len(balls) - Len(balls')]_vars

\* C17 witness: one tick routed two laser contact-starts naming the same
\* ball; the ball was removed once and the other ball is still live
C17_SecondLossIgnored ==
  /\ last.op = "tick" /\ gameState = LOST /\ Len(balls) = 1
  /\ \E k1, k2 \in DOMAIN last.events :
       /\ k1 # k2
       /\ last.events[k1].started /\ last.events[k2].started
       /\ last.events[k1].h1 = last.events[k2].h1
       /\ last.events[k1].h2 \in DOMAIN laserColliderHandles
       /\ last.events[k2].h2 \in DOMAIN laserColliderHandles

\* C18: in a tick taken while Playing, a ball named with a laser in a routed
\* contact-start event, in either order of the two handles, is removed and
\* the tick ends Lost; a ball that no such event names and that is not out
\* of bounds stays in the live set.
C18_LaserLosesNamedBall ==
  [][\A i \in DOMAIN balls :
       (last'.op = "tick" /\ gameState = PLAYING)
       => IF \E k \in DOMAIN last'.events :
               /\ last'.events[k].started
               /\ \E h \in { last'.events[k].h1, last'.events[k].h2 } :
                    /\ h \in DOMAIN laserColliderHandles
                    /\ { last'.events[k].h1, last'.events[k].h2 } = { h, balls[i].handle }
          THEN /\ gameState' = LOST
               /\ \A j \in DOMAIN balls' : balls'[j].handle # balls[i].handle
          ELSE ~OutOfBounds(balls[i].gfx)
                 => \E j \in DOMAIN balls' : balls'[j].handle = balls[i].handle]_vars

\* C18 witness: a tick routed one laser contact-start; the ball it names is
\* gone and the other ball is live
C18_NamedBallRemoved ==
  /\ last.op = "tick" /\ gameState = LOST
  /\ Len(last.events) = 1 /\ last.events[1].started
  /\ last.events[1].h2 \in DOMAIN laserColliderHandles
  /\ Len(balls) = 1 /\ balls[1].handle # last.events[1].h1

\* C19: a tick taken while Playing whose routed events all have both
\* collider ids absent from every lookup table, and that finds no ball out of
\* bounds, changes nothing through the router: the session state, the live
\* balls, the lookup tables, the contact set, the reload timer and every
\* melting flag are as before (an ice block may still finish melting in it).
C19_UnknownIdsIgnored ==
  [][( /\ last'.op = "tick" /\ gameState = PLAYING
       /\ last'.events # << >> /\ last'.beltEvents = 0
       /\ \A k \in DOMAIN last'.events :
            { last'.events[k].h1, last'.events[k].h2 }
              \cap (DOMAIN ballColliderHandles \cup DOMAIN iceBlockColliderHandles
                      \cup DOMAIN laserColliderHandles \cup DOMAIN conveyorHandles
                      \cup DOMAIN drawnLineColliderHandles
                      \cup DOMAIN fallingObjectColliderHandles
                      \cup DOMAIN seesawColliderHandles) = {}
       /\ \A i \in DOMAIN balls : ~OutOfBounds(balls[i].gfx) )
     => /\ UNCHANGED << gameState, ballColliderHandles, laserColliderHandles,
                        conveyorHandles, drawnLineColliderHandles,
                        fallingObjectColliderHandles, seesawColliderHandles,
                        activeConveyorContacts, fallingObjects, drawnLines,
                        autoRestartTimeout, timers >>
        /\ [i \in DOMAIN balls' |-> balls'[i].handle]
             = [i \in DOMAIN balls |-> balls[i].handle]
        /\ DOMAIN iceBlockColliderHandles'
             = DOMAIN iceBlockColliderHandles \ last'.melted
        /\ \A i \in DOMAIN iceBlocks, j \in DOMAIN iceBlocks' :
             iceBlocks'[j].handle = iceBlocks[i].handle
               => iceBlocks'[j].isMelting = iceBlocks[i].isMelting]_vars

\* C19 witness: while Playing, a tick routed events that all name colliders
\* of an earlier level attempt, which no table of this attempt holds
C19_UnknownEventRouted ==
  /\ last.op = "tick" /\ gameState = PLAYING /\ last.events # << >>
  /\ \A k \in DOMAIN last.events : last.events[k].h2 < Handle(attempt, 0)

\* C20: a tick taken while the session is Won or Lost performs no solver
\* step, drains no collision event, handles no loss and leaves every entity,
\* lookup table, the contact set, the event queue, the World and every ice
\* melt progress unchanged; each laser is advanced by Laser.update and
\* nothing else changes.
C20_GameOverTickFrozen ==
  [][(gameState \in { WON, LOST } /\ last'.op = "tick") =>
       /\ ~last'.stepped
       /\ last'.events = << >> /\ last'.beltEvents = 0
       /\ last'.log = << >> /\ last'.melted = {}
       /\ last'.trace = << gameState >>
       /\ lasers' = [i \in DOMAIN lasers |-> LaserUpdate(lasers[i], last'.dt)]
       /\ UNCHANGED << gameState, hasStarted, currentLevelIndex,
                       autoRestartTimeout, balls, fallingObjects, iceBlocks,
                       conveyors, drawnLines, ballColliderHandles,
                       iceBlockColliderHandles, laserColliderHandles,
                       conveyorHandles, drawnLineColliderHandles,
                       fallingObjectColliderHandles, seesawColliderHandles,
                       activeConveyorContacts, world, beltTouch, removed,
                       eventQueue, timers, pendingLoads, attempt, scheduled,
                       touching, belt, button, drawing, probe >>]_vars

\* C20 witness: a tick has run while Won, with an ice block caught melting
C20_TickWhileWon ==
  /\ gameState = WON /\ last.op = "tick" /\ ~last.stepped
  /\ \E i \in DOMAIN iceBlocks :
       iceBlocks[i].isMelting /\ iceBlocks[i].meltProgress > 0

\* C21: every tick, in every session state (Ready, Playing, Won, Lost), adds
\* the tick's elapsed time to each laser's flip timer; when the sum reaches
\* FLIP_INTERVAL the interval is taken off the timer and the visual phase
\* (isFlipped) toggles, and otherwise the phase stays.
C21_LaserTimerEveryTick ==
  [][last'.op = "tick" =>
       /\ DOMAIN lasers' = DOMAIN lasers
       /\ \A i \in DOMAIN lasers :
            LET t == lasers[i].flipTimer + last'.dt
            IN /\ lasers'[i].flipTimer = IF t >= FLIP_INTERVAL THEN t - FLIP_INTERVAL
                                         ELSE t
               /\ lasers'[i].isFlipped =
                    IF t >= FLIP_INTERVAL THEN ~lasers[i].isFlipped
                    ELSE lasers[i].isFlipped]_vars

\* C21 witness: a tick taken while Lost has flipped a laser whose timer had
\* accumulated over more than one tick
C21_FlippedWhileLost ==
  /\ gameState = LOST /\ last.op = "tick" /\ ~last.stepped
  /\ last.dt < FLIP_INTERVAL
  /\ \E i \in DOMAIN lasers : lasers[i].isFlipped /\ lasers[i].flipTimer = 0

\* C22 (as amended): a tick taken while the session is Ready or Playing
\* turns the gears of every conveyor belt by the elapsed time, in the
\* direction of the belt's acceleration, also when the session is won or lost
\* within that tick; a tick taken while the session is already Won or Lost
\* leaves every gear where it is.
C22_GearTurnsUnlessOver ==
  [][last'.op = "tick" =>
       /\ DOMAIN conveyors' = DOMAIN conveyors
       /\ \A i \in DOMAIN conveyors :
            conveyors'[i].gearRotation =
              IF gameState \in { WON, LOST } THEN conveyors[i].gearRotation
              ELSE (conveyors[i].gearRotation
                    + (IF conveyors[i].acceleration >= 0 THEN 1 ELSE -1) * last'.dt)
                   % GearTurn]_vars

\* C22 witness: a tick that ended the session has turned the gears of a belt
C22_GearTurned ==
  /\ last.op = "tick" /\ last.stepped /\ Len(last.trace) = 2
  /\ gameState \in { WON, LOST }
  /\ \E i \in DOMAIN conveyors : conveyors[i].gearRotation # 0

\* C22 as stated: every tick, also one taken while Won or Lost, turns the
\* gears of every conveyor belt by the elapsed time
C22_GearTurnsEveryTick ==
  [][last'.op = "tick" =>
       \A i \in DOMAIN conveyors :
         conveyors'[i].gearRotation =
           (conveyors[i].gearRotation
            + (IF conveyors[i].acceleration >= 0 THEN 1 ELSE -1) * last'.dt)
           % GearTurn]_vars

\* C23: after Button.triggerSink(onComplete) the callback is invoked exactly
\* once, on the first update in which sinkProgress reaches 1, however many
\* update calls follow: the number of invocations never exceeds one.
C23_CompletionReportedOnce ==
  button.completions <= 1

\* C24: when every timer fires and every level load succeeds, a session that
\* is Won or Lost is eventually reloaded and Ready again (attempts are
\* counted up to MaxAttempts, so the last counted attempt is left out).
C24_GameOverLeadsToReady ==
  (gameState \in { WON, LOST } /\ attempt < MaxAttempts) ~> (gameState = READY)

\* C24 witness: a level load has taken a Lost session back to Ready
C24_ReloadedAfterLoss ==
  /\ last.op = "load" /\ last.trace = << LOST, READY >>
  /\ gameState = READY /\ attempt > 0

\* C25: right after a level load completes the session is Ready and not
\* started; the entity arrays hold the two balls and the entities the level
\* file lists, all with colliders created by this load; every lookup table
\* names exactly the colliders of the live entities of its kind; the World
\* holds no other collider; no drawn line, conveyor contact or armed reload
\* timer is left.
C25_LoadLeavesOnlyNewLevel ==
  last.op = "load" =>
    LET handles(entities) == { entities[i].handle : i \in DOMAIN entities }
        fresh(hs) == \A h \in hs : h \div Stride = attempt
        count(slots) == Cardinality(levelData \cap slots)
        all == handles(balls) \cup handles(fallingObjects) \cup handles(iceBlocks)
                 \cup handles(lasers) \cup handles(conveyors)
    IN /\ gameState = READY /\ ~hasStarted
       /\ Len(balls) = 2 /\ Cardinality(handles(balls)) = 2
       /\ \A i \in DOMAIN balls : balls[i].bodyType = "fixed"
       /\ Len(fallingObjects) = count({ FallingSlot })
       /\ Len(iceBlocks) = count({ IceSlot })
       /\ Len(lasers) = count({ LaserSlot, Laser2Slot })
       /\ Len(conveyors) = count({ ConveyorSlot })
       /\ \A i \in DOMAIN iceBlocks :
            ~iceBlocks[i].isMelting /\ iceBlocks[i].meltProgress = 0
       /\ fresh(all) /\ DOMAIN world = all
       /\ DOMAIN ballColliderHandles = handles(balls)
       /\ DOMAIN fallingObjectColliderHandles = handles(fallingObjects)
       /\ DOMAIN iceBlockColliderHandles = handles(iceBlocks)
       /\ DOMAIN laserColliderHandles = handles(lasers)
       /\ DOMAIN conveyorHandles = handles(conveyors)
       /\ DOMAIN seesawColliderHandles = {}
       /\ drawnLines = << >> /\ DOMAIN drawnLineColliderHandles = {}
       /\ activeConveyorContacts = << >>
       /\ autoRestartTimeout = NoTimer /\ timers = {}

\* C25 witness: a load has replaced a Won attempt in which a line was drawn
\* and a reload timer was armed
C25_LoadedOverWonAttempt ==
  /\ last.op = "load" /\ last.trace = << WON, READY >>
  /\ \E k \in DOMAIN last.log :
       last.log[k][1] = "world" /\ Slot(last.log[k][2]) >= FirstLineSlot

\* C26 (as amended): a DrawnLine built from n >= 1 points has exactly n
\* joint circles and one segment collider for each consecutive pair of points
\* at least the epsilon apart (in whole pixels: each pair of different
\* points); one point gives one circle and no segment, two points at least
\* the epsilon apart give one segment and two circles.
C26_CollidersPerStroke ==
  Applied("DrawnLine") =>
    LET n == Len(probe.arg)
        circles == Cardinality({ i \in DOMAIN probe.out : probe.out[i] = "circle" })
        segments == Cardinality({ i \in DOMAIN probe.out : probe.out[i] = "segment" })
    IN /\ circles = n
       /\ segments = Cardinality({ i \in 1..(n - 1) : probe.arg[i] # probe.arg[i + 1] })
       /\ Len(probe.out) = circles + segments
       /\ n = 1 => probe.out = << "circle" >>
       /\ (n = 2 /\ probe.arg[1] # probe.arg[2]) =>
            probe.out = << "segment", "circle", "circle" >>

\* C26 witness: a three-point stroke whose first two points coincide has
\* been built with one segment and three circles
C26_RepeatedPointSkipped ==
  /\ Applied("DrawnLine") /\ Len(probe.arg) = 3
  /\ probe.arg[1] = probe.arg[2] /\ probe.arg[2] # probe.arg[3]
  /\ probe.out = << "segment", "circle", "circle", "circle" >>

\* C26 as stated: every two-point stroke yields exactly one segment and two
\* circles
C26_TwoPointsOneSegment ==
  (Applied("DrawnLine") /\ Len(probe.arg) = 2) =>
    probe.out = << "segment", "circle", "circle" >>

\* C27 (as amended): toPhysics divides by SCALE and inverts the vertical
\* axis, toPixels multiplies by SCALE and inverts it back, and in double
\* arithmetic toPixels(toPhysics(px, py)) is (px, py) to within one unit in
\* the last place of each coordinate; it is exactly (px, py) when px and py
\* are multiples of SCALE.
C27_RoundTripWithinUlp ==
  Applied("transform") =>
    \A k \in 1..2 :
      LET x == FromInt(probe.arg[k])
          s == probe.out.physics[k]
          r == probe.out.pixels[k]
          \* the double next to x towards zero
          pred ==
            IF x.sig = << TopBit, 0, 0 >>
            THEN [x EXCEPT !.sig = << 2 * TopBit - 1, Base - 1, Base - 1 >>,
                           !.exp = @ - 1]
            ELSE IF x.sig[3] > 0 THEN [x EXCEPT !.sig[3] = @ - 1]
            ELSE IF x.sig[2] > 0 THEN [x EXCEPT !.sig[2] = @ - 1, !.sig[3] = Base - 1]
            ELSE [x EXCEPT !.sig[1] = @ - 1, !.sig[2] = Base - 1, !.sig[3] = Base - 1]
      IN /\ s.sign = IF k = 1 THEN x.sign ELSE -x.sign
         /\ \/ F64Eq(r, x)
            \/ x.sig # << 0, 0, 0 >> /\ r \in { Succ(x), pred }
         /\ probe.arg[k] % SCALE = 0 =>
              /\ F64Eq(r, x)
              /\ F64Eq(s, FromInt((IF k = 1 THEN 1 ELSE -1) * (probe.arg[k] \div SCALE)))

\* C27 witness: px = 31 has gone through both transforms and come back as
\* the next double above 31 (31.000000000000004)
C27_RoundTripOff ==
  /\ Applied("transform") /\ probe.arg = << 31, 60 >>
  /\ probe.out.pixels[1] = Succ(FromInt(31))
  /\ probe.out.pixels[2] = FromInt(60)

\* C27 as stated: toPixels(toPhysics(px, py)) = (px, py) for all (px, py)
C27_ExactInverse ==
  Applied("transform") =>
    /\ F64Eq(probe.out.pixels[1], FromInt(probe.arg[1]))
    /\ F64Eq(probe.out.pixels[2], FromInt(probe.arg[2]))

\* C28 (as amended): the position given to the win effects is the midpoint
\* of the two balls' body positions converted to presentation space (times
\* SCALE, vertical axis inverted) and clamped to the playfield
\* [0, GAME_WIDTH] x [0, GAME_HEIGHT].
C28_WinAtClampedMidpoint ==
  /\ Len(last.effects) = Len(last.wins)
  /\ \A k \in DOMAIN last.wins :
       LET pos1 == last.wins[k][1]
           pos2 == last.wins[k][2]
           x == ((pos1[1] + pos2[1]) * SCALE) \div 2
           y == (-(pos1[2] + pos2[2]) * SCALE) \div 2
       IN last.effects[k] =
            << IF x < 0 THEN 0 ELSE IF x > GAME_WIDTH THEN GAME_WIDTH ELSE x,
               IF y < 0 THEN 0 ELSE IF y > GAME_HEIGHT THEN GAME_HEIGHT ELSE y >>

\* C28 witness: the two balls have met left of the playfield and the win
\* effect was placed on its edge
C28_WinOnTheEdge ==
  /\ last.op = "tick" /\ Len(last.wins) = 1
  /\ last.wins[1][1][1] < 0 /\ last.wins[1][2][1] < 0
  /\ last.effects[1][1] = 0

\* C28 as stated: the position reported with a win is the midpoint of the
\* two balls' body positions converted to presentation space
C28_WinAtMidpoint ==
  /\ Len(last.effects) = Len(last.wins)
  /\ \A k \in DOMAIN last.wins :
       last.effects[k] =
         << ((last.wins[k][1][1] + last.wins[k][2][1]) * SCALE) \div 2,
            (-(last.wins[k][1][2] + last.wins[k][2][2]) * SCALE) \div 2 >>

\* C29: a three-point arc obstacle whose points are collinear still yields
\* a solid obstacle: its body has at least one fixture.
C29_CollinearArcIsSolid ==
  ( /\ Applied("Obstacle")
    /\ Len(probe.arg.points) = 3 /\ probe.arg.thickness > 0
    /\ ArcDeterminant(probe.arg.points) = 0 )
  => probe.out.fixtures >= 1

\* C30: a gesture whose pointer-down point lies inside a restricted area
\* never invokes the line-complete callback: no invocation belongs to a
\* gesture started inside one of the provider's rectangles.
C30_NoStrokeFromRestrictedStart ==
  \A k \in DOMAIN drawing.calls :
    ~ ( /\ drawing.restrictedAreasProvider
        /\ \E i \in DOMAIN RestrictedAreas :
             Contains(RestrictedAreas[i], drawing.calls[k].startPoint[1],
                      drawing.calls[k].startPoint[2]) )

\* C30 witness: after a committed stroke, a gesture that started inside the
\* restricted area has been moved and released, and nothing was committed
C30_RestrictedGestureEnded ==
  /\ drawing.restrictedAreasProvider
  /\ drawing.gestures = 2 /\ drawing.moves >= 2 /\ ~drawing.isDrawing
  /\ Contains(RestrictedAreas[1], drawing.startPoint[1], drawing.startPoint[2])
  /\ Len(drawing.calls) = 1

\* C31: the active conveyor contact set never contains two entries with the
\* same (body, belt) pair, whatever contact-start and contact-end events are
\* routed, several colliders of one DrawnLine touching one belt included.
C31_NoDuplicateContact ==
  \A i, j \in DOMAIN activeConveyorContacts :
    ( /\ activeConveyorContacts[i].body = activeConveyorContacts[j].body
      /\ activeConveyorContacts[i].conveyor = activeConveyorContacts[j].conveyor )
    => i = j

\* C31 witness: two colliders of one body touch the same belt, and the set
\* holds the pair once
C31_TwoCollidersOneEntry ==
  /\ \E p, q \in touching :
       /\ p # q /\ p[2] = q[2]
       /\ p[1] \in DOMAIN world /\ q[1] \in DOMAIN world
       /\ world[p[1]] = world[q[1]]
  /\ Len(activeConveyorContacts) = 1

C33_ReloadLeavesNoEvents ==
  last.op = "load" => eventQueue = << >>

\* C34: a deferred reload timer is pending only while the session is Won or
\* Lost: while it is Ready or Playing the stored timer handle is null and no
\* reload timer is armed.
C34_TimerOnlyWhenOver ==
  gameState \in { READY, PLAYING } => (autoRestartTimeout = NoTimer /\ timers = {})

\* C34 witness: a level load has cleared an armed reload timer and left the
\* session Ready
C34_ArmedTimerCleared ==
  /\ gameState = READY /\ last.op = "load"
  /\ last.trace[1] \in { WON, LOST }
  /\ autoRestartTimeout = NoTimer /\ timers = {}

\* C35: when the level data of the requested index cannot be loaded,
\* loadLevel changes nothing: session state, live entities, lookup tables,
\* contact set, current level index and a pending reload timer stay as they
\* were.
C35_FailedLoadChangesNothing ==
  [][last'.op = "loadFailed" =>
       UNCHANGED << gameState, hasStarted, currentLevelIndex, autoRestartTimeout,
                    timers, balls, fallingObjects, iceBlocks, lasers, conveyors,
                    drawnLines, ballColliderHandles, iceBlockColliderHandles,
                    laserColliderHandles, conveyorHandles,
                    drawnLineColliderHandles, fallingObjectColliderHandles,
                    seesawColliderHandles, activeConveyorContacts, world,
                    eventQueue, attempt >>]_vars

\* C35 witness: a load has failed while the session was Won with its reload
\* timer armed
C35_FailedWhileTimerArmed ==
  /\ last.op = "loadFailed" /\ gameState = WON
  /\ autoRestartTimeout \in timers

C37_PublishIsUpsert ==
  LET fields == parseIssueBody(issueOps.issue.body)
  IN ( /\ issueOps.runs > 0 /\ ~issueOps.failed
       /\ fields["Action Type"] = << "publish_level" >> )
     => LET levels == issueOps.db.users[issueOps.issue.user.login].levels
            id == JSONParse(fields["Payload"]).v.id
        IN Cardinality({ i \in DOMAIN levels : Get(levels[i], "id") = id }) = 1

\* C38: an issue without the Action Type or the Payload section, with a
\* payload that is no JSON text, with an action type that is none of the
\* three, or with a payload its action's schema rejects ends the run failed,
\* and data.json is neither written nor changed.
C38_RejectedIssueWritesNothing ==
  LET fields == parseIssueBody(issueOps.issue.body)
      action == IF "Action Type" \in DOMAIN fields THEN fields["Action Type"] ELSE << >>
      payload == IF "Payload" \in DOMAIN fields THEN fields["Payload"] ELSE << >>
      needsId == { << "publish_level" >>, << "delete_level" >> }
  IN ( /\ issueOps.runs > 0 /\ issueOps.issue # NoIssue
       /\ \/ action = << >> \/ payload = << >>
          \/ payload = << "{\"id\":" >>
          \/ action \notin needsId \cup { << "update_profile" >> }
          \/ action \in needsId /\ payload \in { << "{}" >>, << "{\"avatar\":\"a.png\"}" >>,
                                                << "{\"avatar\":7}" >>, << "{\"id\":7}" >> }
          \/ action = << "update_profile" >> /\ payload = << "{\"avatar\":7}" >> )
     => /\ issueOps.failed /\ issueOps.written = 0
        /\ issueOps.db = issueOps.before

\* C38 witness: a publish_level whose id is a number has failed on a
\* data.json that holds a user
C38_SchemaFailureOnFilledDb ==
  /\ issueOps.failed /\ issueOps.message = "ZodError"
  /\ issueOps.issue.body[Len(issueOps.issue.body) - 1].text = "{\"id\":7}"
  /\ issueOps.written = 0
  /\ issueOps.db.users # EmptyMap /\ issueOps.db = issueOps.before

====
